---- MODULE Spec2Model ----
(***************************************************************************)
(* Model of fine_voicing/tools/voice_ai_model_thread.py (the bridge        *)
(* VoiceAIModelThread) together with the two protocol clients it drives,   *)
(* openai_realtime_client.py (Provider A) and ultravox_client.py           *)
(* (Provider B).                                                           *)
(*                                                                         *)
(* Every bridge call (send_message or stop) is made by a caller thread of  *)
(* its own; call k carries the message text k, and the provider's reply to *)
(* message m is the text m.  Texts are numbers: 0 is the empty string, -1  *)
(* the sentinel '<Error>'.  A call submits one coroutine to the bridge's   *)
(* event loop with run_coroutine_threadsafe; the loop runs the handles of  *)
(* its ready queue in FIFO order, each from where it was suspended to its  *)
(* next suspension (an await on the network that cannot complete at once). *)
(* The client object created by call k is client k, and the transport a    *)
(* call k opens (websockets.connect) is transport k.                       *)
(*                                                                         *)
(* Spec is the bridge under any number of caller threads, SingleCallerSpec *)
(* the bridge under one caller thread, ReentrantSpec the bridge when code  *)
(* on its own loop thread calls it too, and ClientSpec one client object   *)
(* whose methods are awaited directly, one after the other.  FramesSpec is *)
(* that client under frames it cannot decode and late terminal frames,     *)
(* ConfigSpec the bridge for every configuration it can be built with,     *)
(* DriverSpec the bridge under TestRunner.run_test_case and _converse, and *)
(* QueueSpec the queue-based bridge of tools/openai.py.                    *)
(***************************************************************************)
EXTENDS Integers, Sequences, FiniteSets, TLC

\* Number of bridge calls (each by its own caller thread) in one run.
MaxCalls == 3

Calls == 1..MaxCalls

\* Number of calls a test makes, one after the other, on one client object.
MaxOps == 5

Ops == 1..MaxOps
\* The client object such a test constructs.
TheClient == 1
\* Frames that may lie unread on a transport when a further one arrives.
MaxUnread == 2

\* Largest turn budget of a test case.
MaxTurns == 2
None == 0
\* Handle of the loop.stop callback in the ready queue.
StopHandle == 0

\* The texts that are not replies: "" and the sentinel '<Error>'.
EmptyText == 0
ErrorText == 0 - 1

VARIABLES
    provider,         \* VoiceAIModelThread.provider
    client,           \* VoiceAIModelThread.client: None or the client object
    ws,               \* ws[c]: client c's self.ws: None or a transport
    session_updated,  \* session_updated[c]: client c's flag
    conn,             \* conn[w]: state of transport w
    wire,             \* every frame a client has sent, in order
    inbox,            \* inbox[w]: frames received on transport w, not yet read
    rcv,              \* rcv[w]: the call suspended in recv() on w, or None
    ready,            \* the event loop's queue of ready handles
    loop,             \* the background thread's event loop
    kind,             \* kind[k]: what call k is
    thread,           \* thread[k]: the thread call k was made on
    pc,               \* pc[k]: where call k and its coroutine stand
    cl,               \* cl[k]: the client whose method call k is suspended in
    tr,               \* tr[k]: the transport whose method call k last awaited
    io,               \* io[k]: outcome of the await call k is suspended on
    init,             \* init[k]: how far call k got through _initialize
    seen,             \* seen[k]: the Connection as call k's coroutine found it
    res,              \* res[k]: what call k's future holds
    late,             \* late[k]: call k was made after a stop() had returned
    fault,            \* the provider or the network has failed in this run
    driver,           \* where TestRunner.run_test_case stands, if it runs
    config,           \* VoiceAIModelThread.instructions and .first_speaker
    conv,             \* TestRunner._converse: the budget, index_turn, the
                      \* transcript, and what was sent and decided so far
    qb                \* tools/openai.py: the queue-based singleton bridge
                      \* OpenAIRealtimeClientThread, its worker and callers

vars == <<provider, client, ws, session_updated, conn, wire, inbox, rcv, ready,
          loop, kind, thread, pc, cl, tr, io, init, seen, res, late, fault,
          driver, config, conv, qb>>

\* An attribute of the instance that no statement has assigned yet.
Unassigned == "unassigned"

\* OpenAIRealtimeClientThread.__init__ after lines 179-183: both queues are
\* empty, running is True, the thread object exists and is not started.
NewQueueBridge ==
    [ctor |-> "start",
     instructions |-> Unassigned, logger |-> Unassigned,
     initialized |-> Unassigned,
     running |-> TRUE,
     message_queue |-> <<>>, response_queue |-> <<>>,
     worker |-> "unstarted", exc |-> "none",
     client |-> None, ws |-> None, transport |-> "absent",
     message |-> None, answered |-> {},
     caller |-> [c \in Calls |-> "idle"],
     got |-> [c \in Calls |-> None],
     stop |-> "idle"]

\* _converse before its first turn, with a budget of T turns.
NewConversation(T) ==
    [turns |-> T, index_turn |-> 1, transcript |-> <<>>, sent |-> <<>>,
     decisions |-> <<>>]

\* The values of firstSpeaker.
ULTRAVOX_FIRST_SPEAKER_USER == "FIRST_SPEAKER_USER"
ULTRAVOX_FIRST_SPEAKER_AGENT == "FIRST_SPEAKER_AGENT"

\* The arguments a bridge can be constructed with.
Configs ==
    [instructions : {"", "role prompt"},
     first_speaker : {ULTRAVOX_FIRST_SPEAKER_USER,
                      ULTRAVOX_FIRST_SPEAKER_AGENT}]

\* Those of run_test_case, line 204.
DriverConfig ==
    [instructions |-> "role prompt",
     first_speaker |-> ULTRAVOX_FIRST_SPEAKER_USER]

\* The fields of the client object _initialize constructs for a bridge
\* holding cfg: instructions is passed on, first_speaker is left to the
\* client constructor's default.
NewClient(cfg) ==
    [instructions |-> cfg.instructions,
     first_speaker |-> ULTRAVOX_FIRST_SPEAKER_USER]

\* The body of UltraVoxClient._fetch_join_url's call-creation request.
CallPayload(c) ==
    [systemPrompt |-> c.instructions, firstSpeaker |-> c.first_speaker]

\* The session of OpenAIRealtimeClient.update_session's session.update.
SessionPayload(c) == [instructions |-> c.instructions]

Providers == {"openai", "ultravox"}

NoResult == [st |-> "none", val |-> 0, exc |-> ""]

Init ==
    /\ provider \in Providers
    /\ client = None
    /\ ws = [c \in Calls |-> None]
    /\ session_updated = [c \in Calls |-> FALSE]
    /\ conn = [c \in Calls |-> "absent"]
    /\ wire = <<>>
    /\ inbox = [c \in Calls |-> <<>>]
    /\ rcv = [c \in Calls |-> None]
    /\ ready = <<>>
    /\ loop = "running"
    /\ kind = [k \in Calls |-> "none"]
    /\ thread = [k \in Calls |-> "none"]
    /\ pc = [k \in Calls |-> "idle"]
    /\ cl = [k \in Calls |-> None]
    /\ tr = [k \in Calls |-> None]
    /\ io = [k \in Calls |-> "none"]
    /\ init = [k \in Calls |-> "no"]
    /\ seen = [k \in Calls |-> "unseen"]
    /\ res = [k \in Calls |-> NoResult]
    /\ late = [k \in Calls |-> FALSE]
    /\ fault = FALSE
    /\ driver = "none"
    /\ config = DriverConfig
    /\ conv = NewConversation(1)
    /\ qb = NewQueueBridge

(***************************************************************************)
(* The part of the state the event-loop thread writes, as one record, so   *)
(* that the code run between two suspensions composes as functions on it.  *)
(***************************************************************************)
St ==
    [client |-> client, ws |-> ws, conn |-> conn, wire |-> wire,
     inbox |-> inbox, rcv |-> rcv, pc |-> pc, cl |-> cl, tr |-> tr, io |-> io,
     init |-> init, seen |-> seen, res |-> res]

Commit(s) ==
    /\ client' = s.client
    /\ ws' = s.ws
    /\ conn' = s.conn
    /\ wire' = s.wire
    /\ inbox' = s.inbox
    /\ rcv' = s.rcv
    /\ pc' = s.pc
    /\ cl' = s.cl
    /\ tr' = s.tr
    /\ io' = s.io
    /\ init' = s.init
    /\ seen' = s.seen
    /\ res' = s.res

\* The coroutine of call k ends by raising e: the future holds the exception.
Raise(s, k, e) ==
    [s EXCEPT !.pc[k] = "raised",
              !.io[k] = "none",
              !.res[k] = [st |-> "exc", val |-> 0, exc |-> e]]

\* The coroutine of call k ends by raising e, whose message embeds the text v.
RaiseWith(s, k, e, v) ==
    [s EXCEPT !.pc[k] = "raised",
              !.io[k] = "none",
              !.res[k] = [st |-> "exc", val |-> v, exc |-> e]]

\* The coroutine of call k ends by returning the text v.
Return(s, k, v) ==
    [s EXCEPT !.pc[k] = "returned",
              !.io[k] = "none",
              !.res[k] = [st |-> "ret", val |-> v, exc |-> ""]]

\* Call k suspends at p inside a method of client c.
Suspend(s, k, p, c) ==
    [s EXCEPT !.pc[k] = p, !.cl[k] = c, !.io[k] = "none"]

\* Call k suspends at p inside a method of client c, in an await on a method
\* of transport w.
SuspendOn(s, k, p, c, w) ==
    [Suspend(s, k, p, c) EXCEPT !.tr[k] = w]

Frame(c, t, m, a) == [c |-> c, t |-> t, m |-> m, ans |-> a]

WsSend(s, f) == [s EXCEPT !.wire = Append(s.wire, f)]

\* An inbound frame: its type tag, the status and the text it embeds.
InFrame(t, status, text) == [t |-> t, status |-> status, text |-> text]

\* Inbound frames that are not a JSON object: text that json.loads rejects,
\* and text that decodes to a JSON value without fields (a list, a number).
NotJSON == InFrame("(not JSON)", "", EmptyText)
NotObject == InFrame("(not an object)", "", EmptyText)
Malformed == {NotJSON, NotObject}

\* What data = json.loads(response) followed by data.get("type") raises on
\* the frame f, or "".
DecodeError(f) ==
    IF f = NotJSON THEN "JSONDecodeError"
    ELSE IF f = NotObject THEN "AttributeError(data.get)"
    ELSE ""

(***************************************************************************)
(* websockets' recv(), as the clients use it, on what self.ws holds: w, a   *)
(* transport or None (AttributeError).  A second coroutine calling recv()  *)
(* while another is suspended in it gets ConcurrencyError at once; a frame *)
(* already received is returned without suspending; on a closed transport  *)
(* with nothing left to read recv() raises ConnectionClosed; otherwise the *)
(* caller suspends until a frame arrives.                                  *)
(***************************************************************************)
RecvOutcome(s, k, w) ==
    IF w = None THEN "AttributeError"
    ELSE IF s.rcv[w] # None /\ s.rcv[w] # k THEN "concurrency"
    ELSE IF s.inbox[w] # <<>> THEN "frame"
    ELSE IF s.conn[w] # "open" THEN "closed"
    ELSE "wait"

\* recv() hands over the oldest unread frame of transport w.
TakeFrame(s, w) ==
    [s EXCEPT !.inbox[w] = Tail(s.inbox[w]), !.rcv[w] = None]

\* ws.send(): on no transport (self.ws is None) AttributeError, on a transport
\* that is not open ConnectionClosed, otherwise the frame goes on the wire.
SendOutcome(s, c) ==
    IF s.ws[c] = None THEN "AttributeError"
    ELSE IF s.conn[s.ws[c]] # "open" THEN "ConnectionClosed"
    ELSE "sent"

(***************************************************************************)
(* OpenAIRealtimeClient.send_message: the read loop.                       *)
(***************************************************************************)
OPENAI_OBSERVED_EVENTS == {"response.done", "error"}

\* Mutant: an error frame is skipped like a frame of a non-observed type.
OpenAIOnFrameErrorSkipped(s, k, f) ==
    IF DecodeError(f) # ""
    THEN Raise(s, k, DecodeError(f))
    ELSE
    IF f.t \in OPENAI_OBSERVED_EVENTS
    THEN IF f.t = "response.done"
         THEN IF f.status = "completed"
              THEN Return(s, k, f.text)
              ELSE Return(s, k, ErrorText)
         ELSE s
    ELSE s

\* Mutant: response.done is taken as completed whatever its status.
OpenAIOnFrameNoStatus(s, k, f) ==
    IF DecodeError(f) # ""
    THEN Raise(s, k, DecodeError(f))
    ELSE
    IF f.t \in OPENAI_OBSERVED_EVENTS
    THEN IF f.t = "response.done"
         THEN Return(s, k, f.text)
         ELSE RaiseWith(s, k, "OpenAIError", f.text)
    ELSE s

\* What the loop body does with one frame: "continue", or how the call ends.
OpenAIOnFrame(s, k, f) ==
    IF DecodeError(f) # ""
    THEN Raise(s, k, DecodeError(f))
    ELSE
    IF f.t \in OPENAI_OBSERVED_EVENTS
    THEN IF f.t = "response.done"
         THEN IF f.status = "completed"
              THEN Return(s, k, f.text)
              ELSE Return(s, k, ErrorText)
         ELSE RaiseWith(s, k, "OpenAIError", f.text)
    ELSE s

\* Mutant: the read loop without its except for ConnectionClosed.
RECURSIVE OpenAIReadLoopUncaught(_, _, _, _)
OpenAIReadLoopUncaught(s, k, c, w) ==
    LET o == RecvOutcome(s, k, w) IN
    CASE o = "AttributeError" -> Raise(s, k, "AttributeError")
      [] o = "concurrency" -> Raise(s, k, "ConcurrencyError")
      [] o = "closed" -> Raise([s EXCEPT !.rcv[w] = None], k, "ConnectionClosed")
      [] o = "wait" -> [SuspendOn(s, k, "recv", c, w) EXCEPT !.rcv[w] = k]
      [] o = "frame" ->
            LET f == Head(s.inbox[w])
                s1 == OpenAIOnFrame(TakeFrame(s, w), k, f)
            IN  IF s1.pc[k] \in {"returned", "raised"}
                THEN s1
                ELSE OpenAIReadLoopUncaught(s1, k, c, s1.ws[c])

\* The loop of client c from a recv() on w: the one call k was suspended in,
\* or a new one on what self.ws holds.
RECURSIVE OpenAIReadLoop(_, _, _, _)
OpenAIReadLoop(s, k, c, w) ==
    LET o == RecvOutcome(s, k, w) IN
    CASE o = "AttributeError" -> Raise(s, k, "AttributeError")
      [] o = "concurrency" -> Raise(s, k, "ConcurrencyError")
      [] o = "closed" -> Return([s EXCEPT !.rcv[w] = None], k, EmptyText)
      [] o = "wait" -> [SuspendOn(s, k, "recv", c, w) EXCEPT !.rcv[w] = k]
      [] o = "frame" ->
            LET f == Head(s.inbox[w])
                s1 == OpenAIOnFrame(TakeFrame(s, w), k, f)
            IN  IF s1.pc[k] \in {"returned", "raised"}
                THEN s1
                ELSE OpenAIReadLoop(s1, k, c, s1.ws[c])

\* Mutant: send_message sends response.create before the conversation item.
OpenAISendMessageSwapped(s, k, c) ==
    LET o == SendOutcome(s, c) IN
    IF o # "sent"
    THEN Raise(s, k, o)
    ELSE OpenAIReadLoop(
             WsSend(WsSend(s, Frame(s.ws[c], "response.create", k, FALSE)),
                    Frame(s.ws[c], "conversation.item.create", k, TRUE)),
             k, c, s.ws[c])

\* OpenAIRealtimeClient.send_message on client c, for call k.
OpenAISendMessage(s, k, c) ==
    LET o == SendOutcome(s, c) IN
    IF o # "sent"
    THEN Raise(s, k, o)
    ELSE OpenAIReadLoop(
             WsSend(WsSend(s, Frame(s.ws[c], "conversation.item.create", k, TRUE)),
                    Frame(s.ws[c], "response.create", k, FALSE)),
             k, c, s.ws[c])

(***************************************************************************)
(* UltraVoxClient.send_message.                                            *)
(***************************************************************************)
ULTRAVOX_OBSERVED_EVENTS == {"transcript"}

\* Mutant: the text of any transcript frame is taken, final or not.
UltravoxOnFrameAnyTranscript(s, k, f) ==
    IF DecodeError(f) = "JSONDecodeError"
    THEN s
    ELSE
    IF DecodeError(f) # ""
    THEN Raise(s, k, DecodeError(f))
    ELSE
    IF f.t \in ULTRAVOX_OBSERVED_EVENTS
    THEN Return(s, k, f.text)
    ELSE s

\* The loop body on one frame; the inner try catches json.JSONDecodeError.
UltravoxOnFrame(s, k, f) ==
    IF DecodeError(f) = "JSONDecodeError"
    THEN s
    ELSE
    IF DecodeError(f) # ""
    THEN Raise(s, k, DecodeError(f))
    ELSE
    IF f.t \in ULTRAVOX_OBSERVED_EVENTS
    THEN IF f.status = "final"
         THEN Return(s, k, f.text)
         ELSE s
    ELSE s

RECURSIVE UltravoxReadLoop(_, _, _, _)
UltravoxReadLoop(s, k, c, w) ==
    LET o == RecvOutcome(s, k, w) IN
    CASE o = "AttributeError" -> Raise(s, k, "AttributeError")
      [] o = "concurrency" -> Raise(s, k, "ConcurrencyError")
      [] o = "closed" -> Return([s EXCEPT !.rcv[w] = None], k, EmptyText)
      [] o = "wait" -> [SuspendOn(s, k, "recv", c, w) EXCEPT !.rcv[w] = k]
      [] o = "frame" ->
            LET f == Head(s.inbox[w])
                s1 == UltravoxOnFrame(TakeFrame(s, w), k, f)
            IN  IF s1.pc[k] \in {"returned", "raised"}
                THEN s1
                ELSE UltravoxReadLoop(s1, k, c, s1.ws[c])

UltravoxSendMessage(s, k, c) ==
    LET o == SendOutcome(s, c) IN
    IF o # "sent"
    THEN Raise(s, k, o)
    ELSE UltravoxReadLoop(
             WsSend(s, Frame(s.ws[c], "input_text_message", k, FALSE)),
             k, c, s.ws[c])

(***************************************************************************)
(* VoiceAIModelThread.send_message._send, line 53:                         *)
(*     return await self.client.send_message(message)                      *)
(* self.client is read when the line runs.                                 *)
(***************************************************************************)
ClientSendMessage(s, k) ==
    IF s.client = None
    THEN Raise(s, k, "AttributeError")
    ELSE IF provider = "openai"
         THEN OpenAISendMessage(s, k, s.client)
         ELSE UltravoxSendMessage(s, k, s.client)

(***************************************************************************)
(* update_session has returned to the code that awaited it: in the bridge  *)
(* _initialize returns and _send goes on to line 53; a direct call of the  *)
(* client's method returns to its caller.                                  *)
(***************************************************************************)
UpdateSessionReturns(s, k) ==
    LET s1 == [s EXCEPT !.init[k] = "done"] IN
    IF kind[k] = "send"
    THEN ClientSendMessage(s1, k)
    ELSE Return(s1, k, EmptyText)

\* Mutant: update_session ends its wait on the first frame of any type.
RECURSIVE OpenAIAckLoopAnyFrame(_, _, _, _)
OpenAIAckLoopAnyFrame(s, k, c, w) ==
    LET o == RecvOutcome(s, k, w) IN
    CASE o = "AttributeError" -> Raise(s, k, "AttributeError")
      [] o = "concurrency" -> Raise(s, k, "ConcurrencyError")
      [] o = "closed" -> Raise([s EXCEPT !.rcv[w] = None], k, "ConnectionClosed")
      [] o = "wait" -> [SuspendOn(s, k, "hs_recv", c, w) EXCEPT !.rcv[w] = k]
      [] o = "frame" ->
            LET f == Head(s.inbox[w])
                s1 == TakeFrame(s, w)
            IN  IF DecodeError(f) # ""
                THEN Raise(s1, k, DecodeError(f))
                ELSE
                IF f.t = "error"
                THEN RaiseWith(s1, k, "SessionUpdateError", f.text)
                ELSE UpdateSessionReturns(s1, k)

(***************************************************************************)
(* OpenAIRealtimeClient.update_session: the wait for the acknowledgment.   *)
(***************************************************************************)
RECURSIVE OpenAIAckLoop(_, _, _, _)
OpenAIAckLoop(s, k, c, w) ==
    LET o == RecvOutcome(s, k, w) IN
    CASE o = "AttributeError" -> Raise(s, k, "AttributeError")
      [] o = "concurrency" -> Raise(s, k, "ConcurrencyError")
      [] o = "closed" -> Raise([s EXCEPT !.rcv[w] = None], k, "ConnectionClosed")
      [] o = "wait" -> [SuspendOn(s, k, "hs_recv", c, w) EXCEPT !.rcv[w] = k]
      [] o = "frame" ->
            LET f == Head(s.inbox[w])
                s1 == TakeFrame(s, w)
            IN  IF DecodeError(f) # ""
                THEN Raise(s1, k, DecodeError(f))
                ELSE
                IF f.t = "session.updated"
                THEN UpdateSessionReturns(s1, k)
                ELSE IF f.t = "error"
                     THEN RaiseWith(s1, k, "SessionUpdateError", f.text)
                     ELSE OpenAIAckLoop(s1, k, c, s1.ws[c])

\* Mutant: update_session with its test of the flag inverted.
OpenAIUpdateSessionFlagInverted(s, k, c) ==
    IF session_updated[c]
    THEN LET o == SendOutcome(s, c) IN
         IF o # "sent"
         THEN Raise(s, k, o)
         ELSE OpenAIAckLoop(
                  WsSend(s, Frame(s.ws[c], "session.update", k, FALSE)),
                  k, c, s.ws[c])
    ELSE UpdateSessionReturns(s, k)

OpenAIUpdateSession(s, k, c) ==
    IF ~session_updated[c]
    THEN LET o == SendOutcome(s, c) IN
         IF o # "sent"
         THEN Raise(s, k, o)
         ELSE OpenAIAckLoop(
                  WsSend(s, Frame(s.ws[c], "session.update", k, FALSE)),
                  k, c, s.ws[c])
    ELSE UpdateSessionReturns(s, k)

\* UltraVoxClient.update_session returns True.
UltravoxUpdateSession(s, k, c) ==
    UpdateSessionReturns(s, k)

\* _initialize, line 73: await self.client.update_session(), self.client read
\* when the line runs.
ClientUpdateSession(s, k) ==
    IF s.client = None
    THEN Raise(s, k, "AttributeError")
    ELSE IF provider = "openai"
         THEN OpenAIUpdateSession(s, k, s.client)
         ELSE UltravoxUpdateSession(s, k, s.client)

(***************************************************************************)
(* connect() has returned to the code that awaited it: in the bridge       *)
(* _initialize goes on to line 73; a direct call returns to its caller.    *)
(***************************************************************************)
ConnectReturns(s, k) ==
    IF kind[k] = "send"
    THEN ClientUpdateSession(s, k)
    ELSE Return(s, k, EmptyText)

(***************************************************************************)
(* Protocol Client connect(), as far as its first suspension.              *)
(***************************************************************************)
\* Mutant: connect() without its "if not self.ws" guard.
OpenAIConnectUnguarded(s, k, c) ==
    Suspend(s, k, "connect", c)

\* OpenAIRealtimeClient.connect: if not self.ws, await websockets.connect.
OpenAIConnect(s, k, c) ==
    IF s.ws[c] = None
    THEN Suspend(s, k, "connect", c)
    ELSE ConnectReturns(s, k)

\* Mutant: connect() opens the stream without a call-creation request.
UltravoxConnectNoFetch(s, k, c) ==
    IF s.ws[c] = None
    THEN Suspend(s, k, "connect", c)
    ELSE ConnectReturns(s, k)

\* UltraVoxClient.connect: if not self.ws, await self._fetch_join_url() first.
UltravoxConnect(s, k, c) ==
    IF s.ws[c] = None
    THEN Suspend(s, k, "fetch", c)
    ELSE ConnectReturns(s, k)

\* The await on websockets.connect ended: self.ws is assigned the transport
\* call k opened (Provider B then sends set_output_medium) and connect()
\* returns, or the exception of a failed connect leaves connect().
AfterConnect(s, k) ==
    LET c == s.cl[k]
        s1 == [s EXCEPT !.ws[c] = k]
    IN  IF s.io[k] = "fail"
        THEN Raise(s, k, "ConnectError")
        ELSE IF provider = "openai"
             THEN ConnectReturns(s1, k)
             ELSE IF SendOutcome(s1, c) # "sent"
                  THEN Raise(s1, k, SendOutcome(s1, c))
                  ELSE ConnectReturns(
                           WsSend(s1, Frame(k, "set_output_medium", k, TRUE)), k)

\* The await on _fetch_join_url ended: open the stream at the join URL, or
\* the exception of the failed request leaves connect.
AfterFetch(s, k) ==
    IF s.io[k] = "fail"
    THEN Raise(s, k, "ConnectError")
    ELSE Suspend(s, k, "connect", s.cl[k])

(***************************************************************************)
(* VoiceAIModelThread._initialize: a new client object (client k for call  *)
(* k) is assigned to self.client, then connect() and update_session().     *)
(***************************************************************************)
Initialize(s, k) ==
    LET s1 == [s EXCEPT !.client = k, !.init[k] = "begun"] IN
    IF provider = "openai"
    THEN OpenAIConnect(s1, k, k)
    ELSE UltravoxConnect(s1, k, k)

\* The Connection as a coroutine finds it when it starts: none (no client),
\* pending (the client's creator is still in _initialize), failed (the creator
\* left _initialize by an exception), open, or closed (torn down).
Seen(s) ==
    IF s.client = None THEN "none"
    ELSE IF s.init[s.client] = "done"
         THEN IF SendOutcome(s, s.client) = "sent" THEN "open" ELSE "closed"
         ELSE IF s.pc[s.client] = "raised" THEN "failed" ELSE "pending"

\* VoiceAIModelThread.send_message._send, from its start.
BeginSend(s, k) ==
    LET s0 == [s EXCEPT !.seen[k] = Seen(s)] IN
    IF s0.client = None
    THEN Initialize(s0, k)
    ELSE ClientSendMessage(s0, k)

(***************************************************************************)
(* VoiceAIModelThread.stop._cleanup and the clients' disconnect().         *)
(***************************************************************************)
\* _cleanup has ended; an exception of disconnect was logged, not raised.
Cleaned(s, k, logged) ==
    [s EXCEPT !.client = None,
              !.pc[k] = "cleaned",
              !.io[k] = "none",
              !.res[k] = [st |-> "ret", val |-> 0, exc |-> logged]]

\* disconnect() has returned to the code that awaited it: _cleanup, or the
\* caller of a direct call.
DisconnectReturns(s, k) ==
    IF kind[k] = "stop"
    THEN Cleaned(s, k, "")
    ELSE Return(s, k, EmptyText)

\* disconnect() has raised (its ws.close() did): _cleanup logs it, a direct
\* call's caller gets the exception.
DisconnectRaises(s, k) ==
    IF kind[k] = "stop"
    THEN Cleaned(s, k, "logged")
    ELSE Raise(s, k, "CloseError")

\* Some call is suspended in close() on transport w, which has not ended.
Closing(s, w) ==
    \E j \in DOMAIN s.pc :
        s.pc[j] = "close" /\ s.tr[j] = w /\ s.io[j] = "none"

\* Mutant: disconnect() drops the transport without closing it.
DisconnectDropsTransport(s, k, c) ==
    DisconnectReturns([s EXCEPT !.ws[c] = None], k)

\* Mutant: disconnect() without its "if self.ws" guard.
DisconnectUnguarded(s, k, c) ==
    IF s.ws[c] # None
    THEN IF s.conn[s.ws[c]] = "open"
         THEN [SuspendOn(s, k, "close", c, s.ws[c])
                  EXCEPT !.conn[s.ws[c]] = "closed"]
         ELSE IF Closing(s, s.ws[c])
              THEN SuspendOn(s, k, "close", c, s.ws[c])
              ELSE DisconnectReturns([s EXCEPT !.ws[c] = None], k)
    ELSE Raise(s, k, "AttributeError")

\* disconnect(): if self.ws, await self.ws.close() and then self.ws = None.
\* close() on a transport that is closed already returns without suspending;
\* on one that another call is closing, it waits for that close to end.
Disconnect(s, k, c) ==
    IF s.ws[c] # None
    THEN IF s.conn[s.ws[c]] = "open"
         THEN [SuspendOn(s, k, "close", c, s.ws[c])
                  EXCEPT !.conn[s.ws[c]] = "closed"]
         ELSE IF Closing(s, s.ws[c])
              THEN SuspendOn(s, k, "close", c, s.ws[c])
              ELSE DisconnectReturns([s EXCEPT !.ws[c] = None], k)
    ELSE DisconnectReturns(s, k)

\* Mutant: _cleanup without its "is not None" guard and its try.
BeginCleanupUnguarded(s, k) ==
    IF s.client # None
    THEN Disconnect([s EXCEPT !.cl[k] = s.client], k, s.client)
    ELSE Raise(s, k, "AttributeError")

\* _cleanup, from its start.
BeginCleanup(s, k) ==
    IF s.client # None
    THEN Disconnect([s EXCEPT !.cl[k] = s.client], k, s.client)
    ELSE Cleaned(s, k, "")

\* The await on ws.close() ended: self.ws = None and disconnect() returns,
\* or the exception of close() leaves disconnect().
AfterClose(s, k) ==
    IF s.io[k] = "fail"
    THEN DisconnectRaises(s, k)
    ELSE DisconnectReturns([s EXCEPT !.ws[s.cl[k]] = None], k)

(***************************************************************************)
(* A method of the client object TheClient awaited directly (by a test on  *)
(* its own event loop), from its start.                                    *)
(***************************************************************************)
OpKinds == {"connect", "disconnect", "update_session", "send_message"}

BeginOp(s, k) ==
    CASE kind[k] = "connect" ->
            IF provider = "openai"
            THEN OpenAIConnect(s, k, TheClient)
            ELSE UltravoxConnect(s, k, TheClient)
      [] kind[k] = "disconnect" -> Disconnect(s, k, TheClient)
      [] kind[k] = "update_session" ->
            IF provider = "openai"
            THEN OpenAIUpdateSession(s, k, TheClient)
            ELSE UltravoxUpdateSession(s, k, TheClient)
      [] kind[k] = "send_message" ->
            IF provider = "openai"
            THEN OpenAISendMessage(s, k, TheClient)
            ELSE UltravoxSendMessage(s, k, TheClient)

(***************************************************************************)
(* The event loop runs the coroutine of call k from where it stands to its *)
(* next suspension or its end.                                             *)
(***************************************************************************)
Resume(s, k) ==
    CASE s.pc[k] = "queued" ->
            IF kind[k] = "send" THEN BeginSend(s, k)
            ELSE IF kind[k] = "stop" THEN BeginCleanup(s, k)
            ELSE BeginOp(s, k)
      [] s.pc[k] = "fetch" -> AfterFetch(s, k)
      [] s.pc[k] = "connect" -> AfterConnect(s, k)
      [] s.pc[k] = "hs_recv" -> OpenAIAckLoop(s, k, s.cl[k], s.tr[k])
      [] s.pc[k] = "recv" ->
            IF provider = "openai"
            THEN OpenAIReadLoop(s, k, s.cl[k], s.tr[k])
            ELSE UltravoxReadLoop(s, k, s.cl[k], s.tr[k])
      [] s.pc[k] = "close" -> AfterClose(s, k)

(***************************************************************************)
(* Caller threads.                                                         *)
(***************************************************************************)
\* Some stop() call has returned to its caller.
StopReturned == \E j \in Calls : kind[j] = "stop" /\ pc[j] = "returned"

\* Mutant: stop() clears self.client itself, on the caller's thread.
CallClearsClient(k, kd) ==
    /\ pc[k] = "idle"
    /\ \A j \in Calls : j < k => pc[j] # "idle"
    /\ kind' = [kind EXCEPT ![k] = kd]
    /\ thread' = [thread EXCEPT ![k] = "caller"]
    /\ pc' = [pc EXCEPT ![k] = "queued"]
    /\ ready' = Append(ready, k)
    /\ late' = [late EXCEPT ![k] = StopReturned]
    /\ client' = IF kd = "stop" THEN None ELSE client
    /\ UNCHANGED <<provider, ws, session_updated, conn, wire, inbox,
                   rcv, loop, cl, tr, io, init, seen, res, fault,
                   driver, config, conv, qb>>

\* _run_coroutine from a caller thread: run_coroutine_threadsafe puts the
\* coroutine's handle on the loop's queue (also when the loop has stopped)
\* and future.result() blocks the caller.  Calls are numbered as submitted.
Call(k, kd) ==
    /\ pc[k] = "idle"
    /\ \A j \in Calls : j < k => pc[j] # "idle"
    /\ kind' = [kind EXCEPT ![k] = kd]
    /\ thread' = [thread EXCEPT ![k] = "caller"]
    /\ pc' = [pc EXCEPT ![k] = "queued"]
    /\ ready' = Append(ready, k)
    /\ late' = [late EXCEPT ![k] = StopReturned]
    /\ UNCHANGED <<provider, client, ws, session_updated, conn, wire, inbox,
                   rcv, loop, cl, tr, io, init, seen, res, fault,
                   driver, config, conv, qb>>

\* _run_coroutine on the background thread itself (a callback of the loop
\* calls the bridge), line 43: run_until_complete on a loop that is running
\* raises RuntimeError before it schedules the coroutine.  send_message lets
\* the exception out; stop() logs it (line 87), asks the loop to stop (line
\* 89), and its join() of the current thread raises RuntimeError (line 90).
ReentrantCall(k, kd) ==
    /\ loop # "stopped"
    /\ pc[k] = "idle"
    /\ \A j \in Calls : j < k => pc[j] # "idle"
    /\ kind' = [kind EXCEPT ![k] = kd]
    /\ thread' = [thread EXCEPT ![k] = "loop"]
    /\ pc' = [pc EXCEPT ![k] = "raised"]
    /\ res' = [res EXCEPT ![k] = [st |-> "exc", val |-> 0, exc |-> "RuntimeError"]]
    /\ ready' = IF kd = "stop" THEN Append(ready, StopHandle) ELSE ready
    /\ late' = [late EXCEPT ![k] = StopReturned]
    /\ UNCHANGED <<provider, client, ws, session_updated, conn, wire, inbox,
                   rcv, loop, cl, tr, io, init, seen, fault,
                   driver, config, conv, qb>>

\* Mutant: stop() stops the loop without waiting for disconnect to end.
StopLoopEarly(k) ==
    /\ kind[k] = "stop"
    /\ pc[k] \in {"close", "cleaned"}
    /\ pc' = [pc EXCEPT ![k] = "join"]
    /\ ready' = Append(ready, StopHandle)
    /\ UNCHANGED <<provider, client, ws, session_updated, conn, wire, inbox,
                   rcv, loop, kind, thread, cl, tr, io, init, seen, res, fault, late,
                   driver, config, conv, qb>>

\* stop(), line 89, once _cleanup's future is done:
\* self._loop.call_soon_threadsafe(self._loop.stop).
StopLoop(k) ==
    /\ kind[k] = "stop"
    /\ pc[k] = "cleaned"
    /\ pc' = [pc EXCEPT ![k] = "join"]
    /\ ready' = Append(ready, StopHandle)
    /\ UNCHANGED <<provider, client, ws, session_updated, conn, wire, inbox,
                   rcv, loop, kind, thread, cl, tr, io, init, seen, res, fault, late,
                   driver, config, conv, qb>>

\* stop(), line 90: self._thread.join() returns once the thread has ended.
Join(k) ==
    /\ kind[k] = "stop"
    /\ pc[k] = "join"
    /\ loop = "stopped"
    /\ pc' = [pc EXCEPT ![k] = "returned"]
    /\ UNCHANGED <<provider, client, ws, session_updated, conn, wire, inbox,
                   rcv, ready, loop, kind, thread, cl, tr, io, init, seen, res, fault, late,
                   driver, config, conv, qb>>

(***************************************************************************)
(* The background thread: _run_event_loop's run_forever.                   *)
(***************************************************************************)
\* Mutant: a coroutine that ends with an exception takes the loop down.
RunHandleStopsOnRaise ==
    /\ loop # "stopped"
    /\ ready # <<>>
    /\ ready' = Tail(ready)
    /\ IF Head(ready) = StopHandle
       THEN /\ loop' = "stopping"
            /\ UNCHANGED <<client, ws, conn, wire, inbox, rcv, pc, cl, tr, io,
                           init, seen, res>>
       ELSE /\ Commit(Resume(St, Head(ready)))
            /\ loop' = IF Resume(St, Head(ready)).pc[Head(ready)] = "raised"
                       THEN "stopping" ELSE loop
    /\ UNCHANGED <<provider, session_updated, kind, thread, fault, late,
                   driver, config, conv, qb>>

\* The loop runs the oldest ready handle: a coroutine, or loop.stop, after
\* which it still runs what is left of the current batch of handles.
RunHandle ==
    /\ loop # "stopped"
    /\ ready # <<>>
    /\ ready' = Tail(ready)
    /\ IF Head(ready) = StopHandle
       THEN /\ loop' = "stopping"
            /\ UNCHANGED <<client, ws, conn, wire, inbox, rcv, pc, cl, tr, io,
                           init, seen, res>>
       ELSE /\ Commit(Resume(St, Head(ready)))
            /\ loop' = loop
    /\ UNCHANGED <<provider, session_updated, kind, thread, fault, late,
                   driver, config, conv, qb>>

\* run_forever returns after loop.stop ran and the thread ends.
LoopExit ==
    /\ loop = "stopping"
    /\ loop' = "stopped"
    /\ UNCHANGED <<provider, client, ws, session_updated, conn, wire, inbox,
                   rcv, ready, kind, thread, pc, cl, tr, io, init, seen, res, fault, late,
                   driver, config, conv, qb>>

(***************************************************************************)
(* The network and the provider.  An await that completes makes the loop   *)
(* put the suspended coroutine's handle on its ready queue.                *)
(***************************************************************************)
\* The call suspended in recv() on transport c is woken, once.
WakeReceiver(c, rdy, ios) ==
    IF rcv[c] # None /\ ios[rcv[c]] = "none"
    THEN [rdy |-> Append(rdy, rcv[c]), io |-> [ios EXCEPT ![rcv[c]] = "rx"]]
    ELSE [rdy |-> rdy, io |-> ios]

\* The call-creation request of _fetch_join_url ends.
FetchDone(k, ok) ==
    /\ loop # "stopped"
    /\ pc[k] = "fetch"
    /\ io[k] = "none"
    /\ io' = [io EXCEPT ![k] = IF ok THEN "ok" ELSE "fail"]
    /\ ready' = Append(ready, k)
    /\ fault' = (fault \/ ~ok)
    /\ UNCHANGED <<provider, client, ws, session_updated, conn, wire, inbox,
                   rcv, loop, kind, thread, pc, cl, tr, init, seen, res, late,
                   driver, config, conv, qb>>

\* websockets.connect ends: the transport is open, or the connect failed.
ConnectDone(k, ok) ==
    /\ loop # "stopped"
    /\ pc[k] = "connect"
    /\ io[k] = "none"
    /\ io' = [io EXCEPT ![k] = IF ok THEN "ok" ELSE "fail"]
    /\ conn' = [conn EXCEPT ![k] = IF ok THEN "open" ELSE @]
    /\ ready' = Append(ready, k)
    /\ fault' = (fault \/ ~ok)
    /\ UNCHANGED <<provider, client, ws, session_updated, wire, inbox, rcv,
                   loop, kind, thread, pc, cl, tr, init, seen, res, late,
                   driver, config, conv, qb>>

\* ws.close() ends (or fails): the connection is lost, which wakes a call
\* suspended in recv() on it before the closing coroutine.
CloseDone(k, ok) ==
    /\ loop # "stopped"
    /\ pc[k] = "close"
    /\ io[k] = "none"
    /\ LET w == WakeReceiver(tr[k], ready, io) IN
          /\ ready' = Append(w.rdy, k)
          /\ io' = [w.io EXCEPT ![k] = IF ok THEN "ok" ELSE "fail"]
    /\ fault' = (fault \/ ~ok)
    /\ UNCHANGED <<provider, client, ws, session_updated, conn, wire, inbox,
                   rcv, loop, kind, thread, pc, cl, tr, init, seen, res, late,
                   driver, config, conv, qb>>

\* The frames a provider may answer the request frame f with; the message of
\* an error frame about request m is the text m.
Answers(f) ==
    CASE f.t = "session.update" ->
            {InFrame("session.updated", "", EmptyText),
             InFrame("error", "", f.m)}
      [] f.t = "response.create" ->
            {InFrame("response.done", "completed", f.m),
             InFrame("response.done", "failed", EmptyText),
             InFrame("error", "", f.m)}
      [] f.t = "input_text_message" ->
            {InFrame("transcript", "final", f.m)}

IsFault(r) == r.t = "error" \/ r.status = "failed"

\* Index of the oldest request frame on transport c not yet answered, or 0.
Unanswered(c) ==
    LET open == {i \in 1..Len(wire) : wire[i].c = c /\ ~wire[i].ans} IN
    IF open = {} THEN 0 ELSE CHOOSE i \in open : \A j \in open : i <= j

\* The answers the provider may give next on transport c.
Pending(c) ==
    IF Unanswered(c) = 0 THEN {} ELSE Answers(wire[Unanswered(c)])

\* The provider answers the oldest unanswered request on transport c.
Reply(c, r) ==
    /\ loop # "stopped"
    /\ conn[c] = "open"
    /\ r \in Pending(c)
    /\ wire' = [wire EXCEPT ![Unanswered(c)].ans = TRUE]
    /\ inbox' = [inbox EXCEPT ![c] = Append(@, r)]
    /\ LET w == WakeReceiver(c, ready, io) IN
          /\ ready' = w.rdy
          /\ io' = w.io
    /\ fault' = (fault \/ IsFault(r))
    /\ UNCHANGED <<provider, client, ws, session_updated, conn, rcv, loop,
                   kind, thread, pc, cl, tr, init, seen, res, late,
                   driver, config, conv, qb>>

\* Frames neither client acts on: another event type, or (Provider B) a
\* transcript whose final flag is false or missing.
Ignored ==
    IF provider = "openai"
    THEN {InFrame("response.created", "", EmptyText)}
    ELSE {InFrame("state", "", EmptyText),
          InFrame("transcript", "partial", ErrorText),
          InFrame("transcript", "", ErrorText)}

\* Such a frame arrives while a call waits in recv() on transport c.
Noise(c, r) ==
    /\ loop # "stopped"
    /\ conn[c] = "open"
    /\ rcv[c] # None
    /\ io[rcv[c]] = "none"
    /\ inbox[c] = <<>>
    /\ r \in Ignored
    /\ inbox' = [inbox EXCEPT ![c] = Append(@, r)]
    /\ LET w == WakeReceiver(c, ready, io) IN
          /\ ready' = w.rdy
          /\ io' = w.io
    /\ UNCHANGED <<provider, client, ws, session_updated, conn, wire, rcv,
                   loop, kind, thread, pc, cl, tr, init, seen, res, fault, late,
                   driver, config, conv, qb>>

\* Such a frame arrives behind frames the woken call has not read yet.
Trailing(c, r) ==
    /\ loop # "stopped"
    /\ conn[c] = "open"
    /\ rcv[c] # None
    /\ io[rcv[c]] = "rx"
    /\ inbox[c] # <<>>
    /\ Len(inbox[c]) < MaxUnread
    /\ r \in Ignored
    /\ inbox' = [inbox EXCEPT ![c] = Append(@, r)]
    /\ UNCHANGED <<provider, client, ws, session_updated, conn, wire, rcv,
                   ready, loop, kind, thread, pc, cl, tr, io, init, seen, res,
                   fault, late,
                   driver, config, conv, qb>>

\* A frame that is not a JSON object arrives while a call waits in recv() on
\* transport c.
Garbage(c, r) ==
    /\ loop # "stopped"
    /\ conn[c] = "open"
    /\ rcv[c] # None
    /\ io[rcv[c]] = "none"
    /\ inbox[c] = <<>>
    /\ r \in Malformed
    /\ inbox' = [inbox EXCEPT ![c] = Append(@, r)]
    /\ LET w == WakeReceiver(c, ready, io) IN
          /\ ready' = w.rdy
          /\ io' = w.io
    /\ fault' = TRUE
    /\ UNCHANGED <<provider, client, ws, session_updated, conn, wire, rcv,
                   loop, kind, thread, pc, cl, tr, init, seen, res, late,
                   driver, config, conv, qb>>

\* The response.done the provider emits for the request of call k.
DoneFor(k) == InFrame("response.done", "completed", k)

\* Provider A, having ended the exchange of call k with an error frame,
\* later emits the response.done of that same exchange on transport c.
LateDone(c, k) ==
    /\ provider = "openai"
    /\ loop # "stopped"
    /\ conn[c] = "open"
    /\ pc[k] = "raised" /\ res[k].exc = "OpenAIError" /\ tr[k] = c
    /\ \A i \in 1..Len(inbox[c]) : inbox[c][i] # DoneFor(k)
    /\ \A j \in DOMAIN pc : j # k => res[j].val # k
    /\ Len(inbox[c]) < MaxUnread
    /\ inbox' = [inbox EXCEPT ![c] = Append(@, DoneFor(k))]
    /\ LET w == WakeReceiver(c, ready, io) IN
          /\ ready' = w.rdy
          /\ io' = w.io
    /\ UNCHANGED <<provider, client, ws, session_updated, conn, wire, rcv,
                   loop, kind, thread, pc, cl, tr, init, seen, res, late,
                   fault, driver, config, conv, qb>>

\* The provider (or the network) closes transport c.
ProviderClose(c) ==
    /\ loop # "stopped"
    /\ conn[c] = "open"
    /\ conn' = [conn EXCEPT ![c] = "closed"]
    /\ LET w == WakeReceiver(c, ready, io) IN
          /\ ready' = w.rdy
          /\ io' = w.io
    /\ fault' = TRUE
    /\ UNCHANGED <<provider, client, ws, session_updated, wire, inbox, rcv,
                   loop, kind, thread, pc, cl, tr, init, seen, res, late,
                   driver, config, conv, qb>>

Next ==
    \/ \E k \in Calls, kd \in {"send", "stop"} : Call(k, kd)
    \/ \E k \in Calls : StopLoop(k)
    \/ \E k \in Calls : Join(k)
    \/ RunHandle
    \/ LoopExit
    \/ \E k \in Calls, ok \in BOOLEAN : FetchDone(k, ok)
    \/ \E k \in Calls, ok \in BOOLEAN : ConnectDone(k, ok)
    \/ \E k \in Calls, ok \in BOOLEAN : CloseDone(k, ok)
    \/ \E c \in Calls : \E r \in Pending(c) : Reply(c, r)
    \/ \E c \in Calls, r \in Ignored : Noise(c, r)
    \/ \E c \in Calls : ProviderClose(c)

Spec == Init /\ [][Next]_vars

(***************************************************************************)
(* One client object driven directly: a test awaits connect, disconnect,   *)
(* update_session and send_message on it, each after the one before has    *)
(* ended, against the same network and provider.  Call k carries the       *)
(* message text k and the transport it opens is transport k.               *)
(***************************************************************************)
ClientInit ==
    /\ provider \in Providers
    /\ client = None
    /\ ws = [c \in Ops |-> None]
    /\ session_updated = [c \in Ops |-> FALSE]
    /\ conn = [c \in Ops |-> "absent"]
    /\ wire = <<>>
    /\ inbox = [c \in Ops |-> <<>>]
    /\ rcv = [c \in Ops |-> None]
    /\ ready = <<>>
    /\ loop = "running"
    /\ kind = [k \in Ops |-> "none"]
    /\ thread = [k \in Ops |-> "none"]
    /\ pc = [k \in Ops |-> "idle"]
    /\ cl = [k \in Ops |-> None]
    /\ tr = [k \in Ops |-> None]
    /\ io = [k \in Ops |-> "none"]
    /\ init = [k \in Ops |-> "no"]
    /\ seen = [k \in Ops |-> "unseen"]
    /\ res = [k \in Ops |-> NoResult]
    /\ late = [k \in Ops |-> FALSE]
    /\ fault = FALSE
    /\ driver = "none"
    /\ config = DriverConfig
    /\ conv = NewConversation(1)
    /\ qb = NewQueueBridge

\* The test awaits the method kd, once every earlier call has ended.
Invoke(k, kd) ==
    /\ pc[k] = "idle"
    /\ \A j \in Ops : j < k => pc[j] \in {"returned", "raised"}
    /\ kind' = [kind EXCEPT ![k] = kd]
    /\ thread' = [thread EXCEPT ![k] = "caller"]
    /\ pc' = [pc EXCEPT ![k] = "queued"]
    /\ ready' = Append(ready, k)
    /\ UNCHANGED <<provider, client, ws, session_updated, conn, wire, inbox,
                   rcv, loop, cl, tr, io, init, seen, res, late, fault,
                   driver, config, conv, qb>>

ClientNext ==
    \/ \E k \in Ops, kd \in OpKinds : Invoke(k, kd)
    \/ RunHandle
    \/ \E k \in Ops, ok \in BOOLEAN : FetchDone(k, ok)
    \/ \E k \in Ops, ok \in BOOLEAN : ConnectDone(k, ok)
    \/ \E k \in Ops, ok \in BOOLEAN : CloseDone(k, ok)
    \/ \E c \in Ops : \E r \in Pending(c) : Reply(c, r)
    \/ \E c \in Ops, r \in Ignored : Noise(c, r)
    \/ \E c \in Ops, r \in Ignored : Trailing(c, r)
    \/ \E c \in Ops : ProviderClose(c)

ClientSpec == ClientInit /\ [][ClientNext]_vars

\* One client object driven through connect, update_session and then
\* send_message calls, the provider also sending frames that are not JSON
\* objects.
Script(k) ==
    IF k = 1 THEN "connect"
    ELSE IF k = 2 THEN "update_session"
    ELSE "send_message"

FramesNext ==
    \/ \E k \in Ops : Invoke(k, Script(k))
    \/ RunHandle
    \/ \E k \in Ops, ok \in BOOLEAN : FetchDone(k, ok)
    \/ \E k \in Ops, ok \in BOOLEAN : ConnectDone(k, ok)
    \/ \E c \in Ops : \E r \in Pending(c) : Reply(c, r)
    \/ \E c \in Ops, r \in Ignored : Noise(c, r)
    \/ \E c \in Ops, r \in Malformed : Garbage(c, r)
    \/ \E c \in Ops, k \in Ops : LateDone(c, k)

FramesSpec == ClientInit /\ [][FramesNext]_vars

(***************************************************************************)
(* TestRunner.run_test_case: roles, provider, bridge, conversation, and    *)
(* the finally clause that releases the bridge.                            *)
(***************************************************************************)
\* The driver has entered the try block; no bridge has been constructed.
DriverInit ==
    /\ provider \in Providers
    /\ client = None
    /\ ws = [c \in Calls |-> None]
    /\ session_updated = [c \in Calls |-> FALSE]
    /\ conn = [c \in Calls |-> "absent"]
    /\ wire = <<>>
    /\ inbox = [c \in Calls |-> <<>>]
    /\ rcv = [c \in Calls |-> None]
    /\ ready = <<>>
    /\ loop = "unbuilt"
    /\ kind = [k \in Calls |-> "none"]
    /\ thread = [k \in Calls |-> "none"]
    /\ pc = [k \in Calls |-> "idle"]
    /\ cl = [k \in Calls |-> None]
    /\ tr = [k \in Calls |-> None]
    /\ io = [k \in Calls |-> "none"]
    /\ init = [k \in Calls |-> "no"]
    /\ seen = [k \in Calls |-> "unseen"]
    /\ res = [k \in Calls |-> NoResult]
    /\ late = [k \in Calls |-> FALSE]
    /\ fault = FALSE
    /\ driver = "roles"
    /\ config = DriverConfig
    /\ conv \in {NewConversation(T) : T \in 1..MaxTurns}
    /\ qb = NewQueueBridge

\* Lines 181-201: the moderation task, _generate_roles, the check of the
\* two roles; an exception leads to the finally clause.
GenerateRoles(ok) ==
    /\ driver = "roles"
    /\ driver' = IF ok THEN "provider" ELSE "finally_exc"
    /\ UNCHANGED <<provider, client, ws, session_updated, conn, wire, inbox,
                   rcv, ready, loop, kind, thread, pc, cl, tr, io, init, seen,
                   res, late, fault, config, conv, qb>>

\* Line 203: Provider(test_case['voice_model']['provider']).
SelectProvider(ok) ==
    /\ driver = "provider"
    /\ driver' = IF ok THEN "construct" ELSE "finally_exc"
    /\ UNCHANGED <<provider, client, ws, session_updated, conn, wire, inbox,
                   rcv, ready, loop, kind, thread, pc, cl, tr, io, init, seen,
                   res, late, fault, config, conv, qb>>

\* Line 204: voiceai_thread = VoiceAIModelThread(...); the name is bound,
\* and the thread and its loop exist, only if the constructor returns.
Construct(ok) ==
    /\ driver = "construct"
    /\ driver' = IF ok THEN "converse" ELSE "finally_exc"
    /\ loop' = IF ok THEN "running" ELSE loop
    /\ UNCHANGED <<provider, client, ws, session_updated, conn, wire, inbox,
                   rcv, ready, kind, thread, pc, cl, tr, io, init, seen,
                   res, late, fault, config, conv, qb>>

\* The driver's thread calls the bridge method kd as call k and blocks.
DriverCall(k, kd, then) ==
    /\ pc[k] = "idle"
    /\ \A j \in Calls : j < k => pc[j] \in {"returned", "raised"}
    /\ kind' = [kind EXCEPT ![k] = kd]
    /\ thread' = [thread EXCEPT ![k] = "caller"]
    /\ pc' = [pc EXCEPT ![k] = "queued"]
    /\ ready' = Append(ready, k)
    /\ late' = [late EXCEPT ![k] = StopReturned]
    /\ driver' = then
    /\ UNCHANGED <<provider, client, ws, session_updated, conn, wire, inbox,
                   rcv, loop, cl, tr, io, init, seen, res, fault, config, qb>>

\* An entry of the transcript: who speaks and the text.
Entry(role, text) == [role |-> role, text |-> text]

\* _converse, line 254: transcript[-1] if len(transcript) > 0 else "".
LastMessage(transcript) ==
    IF Len(transcript) > 0
    THEN transcript[Len(transcript)]
    ELSE Entry("", EmptyText)

\* Mutant: the turn budget is not looked at.
NextTurnIgnoresBudget(should_terminate, index_turn, turns) ==
    ~should_terminate

\* _converse, line 276: run_next_turn.
NextTurn(should_terminate, index_turn, turns) ==
    ~should_terminate /\ index_turn <= turns

\* _converse, lines 254-255: message = voiceai_thread.send_message(
\* last_message).
Turn(k) ==
    /\ driver = "converse"
    /\ k < MaxCalls
    /\ DriverCall(k, "send", "send_message")
    /\ conv' = [conv EXCEPT !.sent = Append(@, LastMessage(conv.transcript))]
    /\ qb' = qb

\* send_message has returned to _converse, which appends the role-labelled
\* response (line 256), or raised.
SendEnded(k) ==
    /\ driver = "send_message"
    /\ kind[k] = "send"
    /\ pc[k] \in {"returned", "raised"}
    /\ \A j \in Calls : k < j => pc[j] = "idle"
    /\ driver' = IF pc[k] = "returned" THEN "crew" ELSE "finally_exc"
    /\ conv' = IF pc[k] = "returned"
               THEN [conv EXCEPT !.transcript =
                                    Append(@, Entry("tested", res[k].val))]
               ELSE conv
    /\ UNCHANGED <<provider, client, ws, session_updated, conn, wire, inbox,
                   rcv, ready, loop, kind, thread, pc, cl, tr, io, init, seen,
                   res, late, fault, config, qb>>

\* _converse, lines 258-276: the testing crew's message is appended, the
\* moderation crew decides, index_turn is incremented and run_next_turn
\* computed; or a crew raises.
Crew(oc) ==
    /\ driver = "crew"
    /\ oc \in {"continue", "terminate", "raise"}
    /\ IF oc = "raise"
       THEN /\ driver' = "finally_exc"
            /\ conv' = conv
       ELSE /\ driver' = IF NextTurn(oc = "terminate", conv.index_turn + 1,
                                     conv.turns)
                         THEN "converse" ELSE "finally_ok"
            /\ conv' = [conv EXCEPT
                          !.transcript =
                              Append(@, Entry("testing", conv.index_turn)),
                          !.decisions = Append(@, oc),
                          !.index_turn = @ + 1]
    /\ UNCHANGED <<provider, client, ws, session_updated, conn, wire, inbox,
                   rcv, ready, loop, kind, thread, pc, cl, tr, io, init, seen,
                   res, late, fault, config, qb>>

\* Line 228, finally: voiceai_thread.stop(), the name being bound.
Release(k) ==
    /\ driver \in {"finally_ok", "finally_exc"}
    /\ loop # "unbuilt"
    /\ DriverCall(k, "stop", IF driver = "finally_ok" THEN "stop_ok"
                                                      ELSE "stop_exc")
    /\ UNCHANGED <<conv, qb>>

\* Line 228 when line 204 never assigned voiceai_thread: evaluating the name
\* raises UnboundLocalError, which replaces the exception under way.
ReleaseUnbound ==
    /\ driver \in {"finally_ok", "finally_exc"}
    /\ loop = "unbuilt"
    /\ driver' = "UnboundLocalError"
    /\ UNCHANGED <<provider, client, ws, session_updated, conn, wire, inbox,
                   rcv, ready, loop, kind, thread, pc, cl, tr, io, init, seen,
                   res, late, fault, config, conv, qb>>

\* stop() has returned: run_test_case returns the transcript (line 230) or
\* the exception under way leaves it.
StopEnded(k) ==
    /\ driver \in {"stop_ok", "stop_exc"}
    /\ kind[k] = "stop"
    /\ pc[k] \in {"returned", "raised"}
    /\ driver' = IF pc[k] = "raised" THEN "stop_raised"
                 ELSE IF driver = "stop_ok" THEN "returned" ELSE "raised"
    /\ UNCHANGED <<provider, client, ws, session_updated, conn, wire, inbox,
                   rcv, ready, loop, kind, thread, pc, cl, tr, io, init, seen,
                   res, late, fault, config, conv, qb>>

DriverNext ==
    \/ \E ok \in BOOLEAN : GenerateRoles(ok)
    \/ \E ok \in BOOLEAN : SelectProvider(ok)
    \/ \E ok \in BOOLEAN : Construct(ok)
    \/ \E k \in Calls : Turn(k)
    \/ \E k \in Calls : SendEnded(k)
    \/ \E oc \in {"continue", "terminate", "raise"} : Crew(oc)
    \/ \E k \in Calls : Release(k)
    \/ ReleaseUnbound
    \/ \E k \in Calls : StopEnded(k)
    \/ \E k \in Calls : StopLoop(k)
    \/ \E k \in Calls : Join(k)
    \/ RunHandle
    \/ LoopExit
    \/ \E k \in Calls, ok \in BOOLEAN : FetchDone(k, ok)
    \/ \E k \in Calls, ok \in BOOLEAN : ConnectDone(k, ok)
    \/ \E k \in Calls, ok \in BOOLEAN : CloseDone(k, ok)
    \/ \E c \in Calls : \E r \in Pending(c) : Reply(c, r)
    \/ \E c \in Calls, r \in Ignored : Noise(c, r)
    \/ \E c \in Calls : ProviderClose(c)

DriverSpec == DriverInit /\ [][DriverNext]_vars

\* The bridge used by a single caller thread: it makes each call once the
\* one before has returned or raised.
SingleCall(k, kd) ==
    /\ \A j \in Calls : j < k => pc[j] \in {"returned", "raised"}
    /\ Call(k, kd)

SingleCallerNext ==
    \/ \E k \in Calls, kd \in {"send", "stop"} : SingleCall(k, kd)
    \/ \E k \in Calls : StopLoop(k)
    \/ \E k \in Calls : Join(k)
    \/ RunHandle
    \/ LoopExit
    \/ \E k \in Calls, ok \in BOOLEAN : FetchDone(k, ok)
    \/ \E k \in Calls, ok \in BOOLEAN : ConnectDone(k, ok)
    \/ \E k \in Calls, ok \in BOOLEAN : CloseDone(k, ok)
    \/ \E c \in Calls : \E r \in Pending(c) : Reply(c, r)
    \/ \E c \in Calls, r \in Ignored : Noise(c, r)
    \/ \E c \in Calls, r \in Ignored : Trailing(c, r)
    \/ \E c \in Calls : ProviderClose(c)

SingleCallerSpec == Init /\ [][SingleCallerNext]_vars

\* A bridge constructed with any of the arguments, used by one caller.
ConfigInit ==
    /\ provider \in Providers
    /\ client = None
    /\ ws = [c \in Calls |-> None]
    /\ session_updated = [c \in Calls |-> FALSE]
    /\ conn = [c \in Calls |-> "absent"]
    /\ wire = <<>>
    /\ inbox = [c \in Calls |-> <<>>]
    /\ rcv = [c \in Calls |-> None]
    /\ ready = <<>>
    /\ loop = "running"
    /\ kind = [k \in Calls |-> "none"]
    /\ thread = [k \in Calls |-> "none"]
    /\ pc = [k \in Calls |-> "idle"]
    /\ cl = [k \in Calls |-> None]
    /\ tr = [k \in Calls |-> None]
    /\ io = [k \in Calls |-> "none"]
    /\ init = [k \in Calls |-> "no"]
    /\ seen = [k \in Calls |-> "unseen"]
    /\ res = [k \in Calls |-> NoResult]
    /\ late = [k \in Calls |-> FALSE]
    /\ fault = FALSE
    /\ driver = "none"
    /\ config \in Configs
    /\ conv = NewConversation(1)
    /\ qb = NewQueueBridge

ConfigSpec == ConfigInit /\ [][SingleCallerNext]_vars

\* The bridge when callbacks running on its own loop may call it as well.
ReentrantNext ==
    \/ Next
    \/ \E k \in Calls, kd \in {"send", "stop"} : ReentrantCall(k, kd)

ReentrantSpec == Init /\ [][ReentrantNext]_vars

(***************************************************************************)
(* tools/openai.py: the queue-based singleton bridge                       *)
(* OpenAIRealtimeClientThread.  Its worker thread runs async_run on a loop *)
(* of its own; callers hand it messages through message_queue and take the *)
(* responses from response_queue.  Caller c sends the message c, and the   *)
(* provider's answer to the message m is the text m.  A response carries,  *)
(* next to its text, the message it was produced for.                      *)
(***************************************************************************)
\* Everything but the queue-based bridge.
bridgeVars == <<provider, client, ws, session_updated, conn, wire, inbox, rcv,
                ready, loop, kind, thread, pc, cl, tr, io, init, seen, res,
                late, fault, driver, config, conv>>

\* What the constructor is given.
GivenInstructions == "instructions"
GivenLogger == "logger"

\* A step of the queue-based bridge.
QueueStep(next) ==
    /\ qb' = next
    /\ UNCHANGED bridgeVars

\* An exception leaves async_run: run_until_complete re-raises it in run(),
\* and the worker thread ends without reaching line 212.
WorkerDies(q, e) == [q EXCEPT !.worker = "died", !.exc = e, !.message = None]

\* __init__, line 184: self.thread.start().
ThreadStart ==
    /\ qb.ctor = "start"
    /\ QueueStep([qb EXCEPT !.ctor = "assign_instructions",
                            !.worker = "build"])

\* __init__, line 185: self.instructions = instructions.
AssignInstructions ==
    /\ qb.ctor = "assign_instructions"
    /\ QueueStep([qb EXCEPT !.ctor = "assign_logger",
                            !.instructions = GivenInstructions])

\* __init__, line 186: self.logger = logger.
AssignLogger ==
    /\ qb.ctor = "assign_logger"
    /\ QueueStep([qb EXCEPT !.ctor = "assign_initialized",
                            !.logger = GivenLogger])

\* __init__, line 187: self.initialized = True; the constructor returns.
AssignInitialized ==
    /\ qb.ctor = "assign_initialized"
    /\ QueueStep([qb EXCEPT !.ctor = "done", !.initialized = TRUE])

\* async_run, lines 197-200: the client is built from self.instructions and
\* self.logger, read in this order; reading an attribute that is not
\* assigned raises AttributeError.
AsyncRunBuild ==
    /\ qb.worker = "build"
    /\ QueueStep(
         IF qb.instructions = Unassigned
         THEN WorkerDies(qb, "AttributeError(instructions)")
         ELSE IF qb.logger = Unassigned
         THEN WorkerDies(qb, "AttributeError(logger)")
         ELSE [qb EXCEPT !.worker = "connect",
                         !.client = [instructions |-> qb.instructions,
                                     logger |-> qb.logger]])

\* async_run, line 201, and connect (lines 61-74): self.ws is None, the
\* transport is opened, or websockets.connect raises.
AsyncRunConnect(ok) ==
    /\ qb.worker = "connect"
    /\ QueueStep(
         IF ok
         THEN [qb EXCEPT !.worker = "update_session", !.ws = "ws",
                         !.transport = "open"]
         ELSE WorkerDies(qb, "connect"))

\* async_run, line 202, and update_session (lines 82-108): the session is
\* updated, or the provider answers with an error frame (line 106), or recv
\* raises ConnectionClosed; nothing catches either.
AsyncRunUpdateSession(oc) ==
    /\ qb.worker = "update_session"
    /\ oc \in {"session.updated", "error", "closed"}
    /\ (oc = "closed") = (qb.transport = "closed")
    /\ QueueStep(
         CASE oc = "session.updated" -> [qb EXCEPT !.worker = "while"]
           [] oc = "error" -> WorkerDies(qb, "Exception(session)")
           [] oc = "closed" -> WorkerDies(qb, "ConnectionClosed(session)"))

\* async_run, line 204: while self.running.
AsyncRunWhile ==
    /\ qb.worker = "while"
    /\ QueueStep([qb EXCEPT !.worker = IF qb.running THEN "get"
                                                    ELSE "disconnect"])

\* async_run, lines 206-207: a message is taken from message_queue and
\* client.send_message sends its two frames (lines 132-133); on a closed
\* transport ws.send raises ConnectionClosed, outside the try of line 136.
AsyncRunGet ==
    /\ qb.worker = "get"
    /\ qb.message_queue # <<>>
    /\ LET q == [qb EXCEPT !.message_queue = Tail(@),
                           !.message = Head(qb.message_queue)]
       IN QueueStep(IF qb.transport = "open"
                    THEN [q EXCEPT !.worker = "recv"]
                    ELSE WorkerDies(q, "ConnectionClosed(send)"))

\* async_run, lines 206 and 209-210: message_queue.get(timeout=1) raises
\* queue.Empty and the loop goes back to its condition.
AsyncRunTimeout ==
    /\ qb.worker = "get"
    /\ qb.message_queue = <<>>
    /\ QueueStep([qb EXCEPT !.worker = "while"])

\* What client.send_message returns (lines 145-163) when its read loop ends
\* with oc for the message m.
FullResponse(m, oc) ==
    CASE oc = "completed" -> m
      [] oc = "failed" -> ErrorText
      [] oc = "closed" -> EmptyText

\* async_run, lines 207-208, and the read loop of client.send_message (lines
\* 137-163): a response.done frame or the closing of the transport ends the
\* loop and the response is put on response_queue; an error frame raises
\* Exception (line 158), which nothing catches.
AsyncRunPut(oc) ==
    /\ qb.worker = "recv"
    /\ oc \in {"completed", "failed", "error", "closed"}
    /\ (oc = "closed") = (qb.transport = "closed")
    /\ QueueStep(
         IF oc = "error"
         THEN WorkerDies(qb, "Exception(error frame)")
         ELSE [qb EXCEPT !.worker = "while",
                         !.response_queue =
                             Append(@, [to |-> qb.message,
                                        val |-> FullResponse(qb.message, oc)]),
                         !.answered = @ \cup {qb.message},
                         !.message = None])

\* async_run, line 212, and disconnect (lines 76-80): self.ws.close() is
\* called and not awaited, so the coroutine it returns never runs and the
\* transport stays as it is; self.ws becomes None and the thread ends.
AsyncRunDisconnect ==
    /\ qb.worker = "disconnect"
    /\ QueueStep([qb EXCEPT !.worker = "terminated", !.ws = None])

\* send_message, line 216: message_queue.put(message).
QueueSendPut(c) ==
    /\ qb.ctor = "done"
    /\ qb.caller[c] = "idle"
    /\ QueueStep([qb EXCEPT !.caller[c] = "get",
                            !.message_queue = Append(@, c)])

\* send_message, line 217: response_queue.get() returns the oldest response
\* to one of the threads waiting for it.
QueueSendGet(c) ==
    /\ qb.caller[c] = "get"
    /\ qb.response_queue # <<>>
    /\ QueueStep([qb EXCEPT !.caller[c] = "returned",
                            !.got[c] = Head(qb.response_queue),
                            !.response_queue = Tail(@)])

\* stop, line 221: self.running = False.
QueueStop ==
    /\ qb.ctor = "done"
    /\ qb.stop = "idle"
    /\ QueueStep([qb EXCEPT !.stop = "join", !.running = FALSE])

\* stop, line 222: self.thread.join() returns once the thread has ended.
QueueJoin ==
    /\ qb.stop = "join"
    /\ qb.worker \in {"terminated", "died"}
    /\ QueueStep([qb EXCEPT !.stop = "returned"])

\* The provider closes the transport.
QueueProviderClose ==
    /\ qb.transport = "open"
    /\ QueueStep([qb EXCEPT !.transport = "closed"])

QueueInit == Init /\ provider = "openai"

QueueNext ==
    \/ ThreadStart
    \/ AssignInstructions
    \/ AssignLogger
    \/ AssignInitialized
    \/ AsyncRunBuild
    \/ \E ok \in BOOLEAN : AsyncRunConnect(ok)
    \/ \E oc \in {"session.updated", "error", "closed"} :
           AsyncRunUpdateSession(oc)
    \/ AsyncRunWhile
    \/ AsyncRunGet
    \/ AsyncRunTimeout
    \/ \E oc \in {"completed", "failed", "error", "closed"} : AsyncRunPut(oc)
    \/ AsyncRunDisconnect
    \/ \E c \in Calls : QueueSendPut(c)
    \/ \E c \in Calls : QueueSendGet(c)
    \/ QueueStop
    \/ QueueJoin
    \/ QueueProviderClose

QueueSpec == QueueInit /\ [][QueueNext]_vars

(***************************************************************************)
(* Properties.                                                             *)
(***************************************************************************)
SendCalls == {k \in Calls : kind[k] = "send"}
StopCalls == {k \in Calls : kind[k] = "stop"}

\* The first frame an exchange puts on the wire.
IsFirstMsg(f) == f.t \in {"conversation.item.create", "input_text_message"}

\* Number of frames of the sequence w that were sent on transport c.
FramesOn(w, c) == Cardinality({i \in 1..Len(w) : w[i].c = c})

\* Call k has put its message on the wire and waits in its read loop.
InExchange(k) == kind[k] = "send" /\ pc[k] = "recv"

\* C1: with N callers and a provider that answers every exchange (no failure
\* of the provider or the network, no stop()), no send_message call raises and
\* every call that has returned holds the provider's reply to its own message.
C1_EachCallerGetsOwnResponse ==
    (~fault /\ StopCalls = {}) =>
        \A k \in SendCalls :
            /\ pc[k] # "raised"
            /\ pc[k] = "returned" => res[k].val = k

\* C2: while an exchange stays in service (between its first outbound frame
\* and its end) no further frame is sent on its transport.
C2_NoInterleavedFrames ==
    [][\A k \in Calls :
          (InExchange(k) /\ InExchange(k)')
              => FramesOn(wire', tr[k]) = FramesOn(wire, tr[k])]_vars

\* C3: exchanges put their first message frame on the wire in the order in
\* which their calls were submitted (calls are numbered in that order).
C3_SubmissionOrder ==
    \A i, j \in 1..Len(wire) :
        (i < j /\ IsFirstMsg(wire[i]) /\ IsFirstMsg(wire[j]))
            => wire[i].m < wire[j].m

\* C4: no send_message call that the loop has begun to service is left
\* unresolved once the background thread has ended (its caller would then
\* stay blocked in future.result() forever).
C4_NoCallerLeftBlocked ==
    loop = "stopped" =>
        \A k \in SendCalls : pc[k] \notin {"fetch", "connect", "hs_recv", "recv"}

\* C5: a stop() made after an earlier stop() has returned does not hang: it is
\* never left waiting for a coroutine on a loop that no longer runs.
C5_SecondStopReturns ==
    \A k \in StopCalls : late[k] => ~(pc[k] = "queued" /\ loop = "stopped")

\* C6: stop() as the first call on a fresh bridge never raises, calls no
\* disconnect (it enters no client method), is not left waiting on a stopped
\* loop, and has returned only when the background thread has ended.
C6_StopOnFreshBridge ==
    kind[1] = "stop" =>
        /\ pc[1] # "raised"
        /\ res[1].st # "exc"
        /\ res[1].exc = ""
        /\ pc[1] # "close"
        /\ cl[1] = None
        /\ ~(pc[1] = "queued" /\ loop # "running")
        /\ pc[1] = "returned" => loop = "stopped"

C6_Witness == kind[1] = "stop" /\ pc[1] = "returned"

\* C7: every stop() asks the loop to stop only after its _cleanup (with the
\* client's disconnect) has ended, returns only after the background thread
\* has ended, and never raises, also when disconnect raised; the loop is
\* stopped by nothing but a stop() that is past its cleanup.
C7_TeardownOrder ==
    /\ \A k \in StopCalls :
          /\ pc[k] \in {"join", "returned"} => res[k].st = "ret"
          /\ pc[k] = "returned" => loop = "stopped"
          /\ pc[k] # "raised"
          /\ res[k].st # "exc"
    /\ loop # "running" =>
          \E k \in StopCalls : pc[k] \in {"join", "returned"}

\* A stop() whose disconnect raised has returned.
C7_Witness ==
    \E k \in StopCalls : pc[k] = "returned" /\ res[k].exc = "logged"

\* C8: a send_message runs _initialize (connect, then update_session to its
\* end, before the message's frames) exactly when it finds no Connection:
\* on the first call and after the Connection was torn down, and not on an
\* established Connection.
C8_LazyInitWhenNoConnection ==
    /\ \A k \in SendCalls :
          /\ seen[k] = "none" => init[k] # "no"
          /\ seen[k] = "open" => init[k] = "no"
          /\ seen[k] = "closed" => init[k] # "no"
    /\ \A i \in 1..Len(wire) :
          (IsFirstMsg(wire[i]) /\ seen[wire[i].m] \in {"none", "closed"})
              => init[wire[i].m] = "done"

\* C9: a failure of connect or update_session is raised to the caller that
\* triggered _initialize, and the next send_message runs _initialize again.
C9_RetryFromCleanState ==
    \A k \in SendCalls :
        /\ (init[k] = "begun" /\ pc[k] = "returned") => FALSE
        /\ seen[k] = "failed" => init[k] # "no"

\* C10: after the handshake of client c ended on an error frame, no later
\* send_message puts a conversation frame on c's transport.
C10_NoPartialSessionUsed ==
    \A i \in 1..Len(wire) :
        IsFirstMsg(wire[i]) =>
            ~(seen[wire[i].m] = "failed"
              /\ res[wire[i].c].exc = "SessionUpdateError")

\* C11: a send_message or stop() made on the bridge's own background thread
\* while the loop runs executes inline and returns its result: the call does
\* not raise, and it is not left queued behind the caller it would wait for.
C11_ReentrantRunsInline ==
    \A k \in Calls :
        thread[k] = "loop" => pc[k] = "returned" /\ res[k].st = "ret"

\* The update_session call j sent session.update on transport w and returned
\* (it read the acknowledgment): w's Connection is configured.
Configured(j, w) ==
    /\ kind[j] = "update_session"
    /\ pc[j] = "returned"
    /\ \E i \in 1..Len(wire) :
          wire[i].m = j /\ wire[i].t = "session.update" /\ wire[i].c = w

\* C12: Provider A sends no session.update on a transport on which an
\* earlier update_session call has already configured the Connection.
C12_ConfigSentOncePerConnection ==
    \A i \in 1..Len(wire) :
        wire[i].t = "session.update"
            => ~\E j \in Ops : j < wire[i].m /\ Configured(j, wire[i].c)

\* The connect() call j has ended and left the transport it opened in
\* self.ws.
Opened(j) ==
    kind[j] = "connect" /\ pc[j] \in {"returned", "raised"}
        /\ conn[j] # "absent"

\* The connect() call j opened the transport that self.ws holds when call k
\* starts: no disconnect() that returned lies between them.
ConnectionOf(k, j) ==
    /\ j < k
    /\ Opened(j)
    /\ \A d \in Ops :
          (j < d /\ d < k) => ~(kind[d] = "disconnect" /\ pc[d] = "returned")

\* self.ws is set when call k starts.
HasConnection(k) == \E j \in Ops : ConnectionOf(k, j)

\* C13: Provider A's flag is not set on a client that has reconnected, and an
\* update_session call that returns has sent session.update on the transport
\* then in self.ws (after disconnect() and connect(): the new one) and has
\* read the provider's answer to it.
C13_ReconfiguredAfterReconnect ==
    provider = "openai" =>
        \A k, j \in Ops :
            (kind[k] = "update_session" /\ pc[k] = "returned"
                /\ ConnectionOf(k, j))
            => /\ ~session_updated[TheClient]
               /\ \E i \in 1..Len(wire) :
                     /\ wire[i] = Frame(j, "session.update", k, TRUE)

\* An update_session configured a Connection, the client disconnected and
\* connected again, and the next update_session has returned.
C13_Witness ==
    /\ provider = "openai"
    /\ \E j1, u1, d, j2, u2 \in Ops :
          /\ j1 < u1 /\ u1 < d /\ d < j2 /\ j2 < u2
          /\ Configured(u1, j1)
          /\ kind[d] = "disconnect" /\ pc[d] = "returned"
          /\ ConnectionOf(u2, j2)
          /\ Configured(u2, j2)

\* The transports that are open.
Live == {w \in Ops : conn[w] = "open"}

\* C14: a client driven by connect() and disconnect() calls has at most one
\* open transport, the one in self.ws (or the one its connect() is about to
\* put there); a connect() that finds self.ws set returns having opened no
\* transport, requested no call and sent no frame.
C14_AtMostOneTransport ==
    /\ Cardinality(Live) <= 1
    /\ \A w \in Live :
          ws[TheClient] = w \/ (pc[w] = "connect" /\ io[w] = "ok")
    /\ \A k, j \in Ops :
          (kind[k] = "connect" /\ ConnectionOf(k, j))
          => /\ pc[k] \in {"queued", "returned"}
             /\ conn[k] = "absent"
             /\ \A i \in 1..Len(wire) : wire[i].m # k

\* Provider B's connect() has returned on a client whose transport is open.
C14_Witness ==
    /\ provider = "ultravox"
    /\ \E k, j \in Ops :
          /\ kind[k] = "connect" /\ pc[k] = "returned"
          /\ ConnectionOf(k, j)
          /\ conn[j] = "open"

\* Call k is the last call the test has made.
LastStarted(k) == \A j \in Ops : j > k => pc[j] = "idle"

\* C15: disconnect() raises only when the transport's close() raised; on a
\* client with no Connection it awaits no close() and returns; once it has
\* returned the transport it found is closed, self.ws is None and nothing is
\* open, the state in which a second disconnect() leaves the client as well;
\* no two disconnect() calls await close() on the same transport.
C15_DisconnectIdempotent ==
    \A k \in Ops :
        kind[k] = "disconnect" =>
            /\ pc[k] = "raised" =>
                  (res[k].exc = "CloseError" /\ HasConnection(k))
            /\ ~HasConnection(k) =>
                  (pc[k] \in {"queued", "returned"} /\ tr[k] = None)
            /\ pc[k] = "returned" =>
                  /\ \A j \in Ops : ConnectionOf(k, j) => conn[j] = "closed"
                  /\ LastStarted(k) => (ws[TheClient] = None /\ Live = {})
            /\ tr[k] # None =>
                  \A d \in Ops :
                      (d # k /\ kind[d] = "disconnect") => tr[d] # tr[k]

\* A disconnect() closed an open transport and the disconnect() after it
\* has returned.
C15_Witness ==
    \E j, k \in Ops :
        /\ k + 1 \in Ops
        /\ ConnectionOf(k, j)
        /\ kind[k] = "disconnect" /\ pc[k] = "returned" /\ tr[k] = j
        /\ kind[k + 1] = "disconnect" /\ pc[k + 1] = "returned"

\* The step is the event loop resuming the coroutine of call k.
Resumed(k) == ready # <<>> /\ Head(ready) = k /\ ready' = Tail(ready)

\* Index of the first frame of q whose type is in T, or 0.
FirstObserved(q, T) ==
    LET I == {i \in 1..Len(q) : q[i].t \in T} IN
    IF I = {} THEN 0 ELSE CHOOSE i \in I : \A j \in I : i <= j

\* The frames of q behind its i-th.
Behind(q, i) == SubSeq(q, i + 1, Len(q))

\* C16: when Provider A's send_message, waiting in its read loop, is resumed
\* on unread frames of which the first observed one is response.done (any
\* frames before it are of non-observed types), it returns the text of that
\* frame if its status is completed and '<Error>' otherwise, never raises,
\* and leaves every frame behind that one unread.
C16_ResponseDoneEndsLoop ==
    [][\A k \in Ops :
          (provider = "openai" /\ kind[k] = "send_message"
              /\ pc[k] = "recv" /\ Resumed(k))
          => LET q == inbox[tr[k]]
                 i == FirstObserved(q, OPENAI_OBSERVED_EVENTS)
             IN  (i > 0 /\ q[i].t = "response.done")
                 => /\ pc'[k] = "returned"
                    /\ res'[k] = [st |-> "ret",
                                  val |-> IF q[i].status = "completed"
                                          THEN q[i].text ELSE ErrorText,
                                  exc |-> ""]
                    /\ inbox'[tr[k]] = Behind(q, i)
                    /\ wire' = wire]_vars

\* Provider A's send_message has returned '<Error>' and left a frame that
\* arrived behind the response.done unread.
C16_Witness ==
    /\ provider = "openai"
    /\ \E k \in Ops :
          /\ kind[k] = "send_message" /\ pc[k] = "returned"
          /\ res[k].val = ErrorText
          /\ LastStarted(k)
          /\ inbox[tr[k]] # <<>>

\* The frames call k has put on the wire.
FramesOf(k) == SelectSeq(wire, LAMBDA f : f.m = k)

\* C17: when a send_message of a Provider A bridge, waiting in its read loop,
\* is resumed on unread frames of which the first observed one is an error
\* frame, the call ends raised with the message of that frame, it reads no
\* frame behind that one and sends nothing; a call that has raised stays
\* raised and never sends again (no retry).
C17_ErrorFrameRaises ==
    [][\A k \in Calls :
          /\ (provider = "openai" /\ kind[k] = "send"
                  /\ pc[k] = "recv" /\ Resumed(k))
              => LET q == inbox[tr[k]]
                     i == FirstObserved(q, OPENAI_OBSERVED_EVENTS)
                 IN  (i > 0 /\ q[i].t = "error")
                     => /\ pc'[k] = "raised"
                        /\ res'[k] = [st |-> "exc", val |-> q[i].text,
                                      exc |-> "OpenAIError"]
                        /\ inbox'[tr[k]] = Behind(q, i)
                        /\ wire' = wire
          /\ pc[k] = "raised"
              => (pc'[k] = "raised" /\ res'[k] = res[k]
                     /\ Len(FramesOf(k))' = Len(FramesOf(k)))]_vars

\* A send_message of the bridge has raised with the provider's error message
\* about its own request.
C17_Witness ==
    /\ provider = "openai"
    /\ \E k \in SendCalls :
          /\ pc[k] = "raised"
          /\ res[k] = [st |-> "exc", val |-> k, exc |-> "OpenAIError"]

\* The frame types that end update_session's wait.
AckEvents == {"session.updated", "error"}

\* C18: a Provider A update_session that waits for its acknowledgment has
\* sent exactly one frame, session.update; resumed on unread frames, it
\* returns at the first session.updated, raises with the message of the
\* first error frame, whichever comes first, leaving the frames behind that
\* one unread, and on frames of other types only it reads them all and goes
\* on waiting.
C18_AckWait ==
    /\ [](\A k \in Ops :
             (provider = "openai" /\ kind[k] = "update_session"
                 /\ pc[k] = "hs_recv")
             => /\ Len(FramesOf(k)) = 1
                /\ FramesOf(k)[1].t = "session.update"
                /\ FramesOf(k)[1].c = tr[k])
    /\ [][\A k \in Ops :
             (provider = "openai" /\ kind[k] = "update_session"
                 /\ pc[k] = "hs_recv" /\ Resumed(k))
             => LET q == inbox[tr[k]]
                    i == FirstObserved(q, AckEvents)
                IN  /\ wire' = wire
                    /\ (i > 0 /\ q[i].t = "session.updated")
                        => /\ pc'[k] = "returned"
                           /\ res'[k].st = "ret"
                           /\ inbox'[tr[k]] = Behind(q, i)
                    /\ (i > 0 /\ q[i].t = "error")
                        => /\ pc'[k] = "raised"
                           /\ res'[k] = [st |-> "exc", val |-> q[i].text,
                                         exc |-> "SessionUpdateError"]
                           /\ inbox'[tr[k]] = Behind(q, i)
                    /\ (i = 0 /\ conn[tr[k]] = "open")
                        => /\ pc'[k] = "hs_recv"
                           /\ inbox'[tr[k]] = <<>>]_vars

\* An update_session has returned on the acknowledgment and left a frame
\* that arrived behind it unread.
C18_Witness ==
    /\ provider = "openai"
    /\ \E k \in Ops :
          /\ kind[k] = "update_session" /\ pc[k] = "returned"
          /\ LastStarted(k)
          /\ inbox[tr[k]] # <<>>

\* The types of the frames call k has put on the wire, in order.
TypesOf(k) == [i \in 1..Len(FramesOf(k)) |-> FramesOf(k)[i].t]

IsPrefix(a, b) == Len(a) <= Len(b) /\ a = SubSeq(b, 1, Len(a))

\* Call k has got as far as its read loop.
InReadLoop(k) ==
    \/ pc[k] \in {"recv", "returned"}
    \/ pc[k] = "raised" /\ res[k].exc = "OpenAIError"

\* C19: on a Provider A bridge with one caller, only the first send_message
\* runs _initialize; the frames it sends are, in order, session.update,
\* conversation.item.create, response.create, those of every later
\* send_message conversation.item.create, response.create, all on the same
\* transport; a call in its read loop has sent all of them.
C19_OutboundFrames ==
    provider = "openai" =>
        \A k \in SendCalls :
            LET exp == IF init[k] # "no"
                       THEN <<"session.update", "conversation.item.create",
                              "response.create">>
                       ELSE <<"conversation.item.create", "response.create">>
            IN  /\ IsPrefix(TypesOf(k), exp)
                /\ InReadLoop(k) => TypesOf(k) = exp
                /\ init[k] # "no" => \A j \in SendCalls : k <= j
                /\ \A i \in 1..Len(wire) : wire[i].c = wire[1].c

\* The first send_message and a later one have both returned the reply to
\* their own message.
C19_Witness ==
    /\ provider = "openai"
    /\ \E j, k \in SendCalls :
          /\ j < k
          /\ init[j] = "done" /\ pc[j] = "returned" /\ res[j].val = j
          /\ init[k] = "no" /\ pc[k] = "returned" /\ res[k].val = k

\* The frame f ends the read loop of send_message.
Terminal(f) ==
    IF provider = "openai"
    THEN f.t \in OPENAI_OBSERVED_EVENTS
    ELSE f.t \in ULTRAVOX_OBSERVED_EVENTS /\ f.status = "final"

\* C20: a send_message in its read loop on a transport that has closed has
\* been woken and its handle is on the loop's queue (it does not hang);
\* resumed with no terminal frame among the unread ones, it returns the
\* empty string and does not raise.
C20_ClosedTransportReturnsEmpty ==
    /\ [](\A k \in Ops :
             (kind[k] = "send_message" /\ pc[k] = "recv"
                 /\ conn[tr[k]] # "open")
             => /\ io[k] = "rx"
                /\ \E i \in 1..Len(ready) : ready[i] = k)
    /\ [][\A k \in Ops :
             (kind[k] = "send_message" /\ pc[k] = "recv" /\ Resumed(k)
                 /\ conn[tr[k]] # "open"
                 /\ \A i \in 1..Len(inbox[tr[k]]) :
                       ~Terminal(inbox[tr[k]][i]))
             => /\ pc'[k] = "returned"
                /\ res'[k] = [st |-> "ret", val |-> EmptyText, exc |-> ""]]_vars

\* Provider B's send_message has returned the empty string from its read
\* loop on a transport that closed.
C20_Witness ==
    /\ provider = "ultravox"
    /\ \E k \in Ops :
          /\ kind[k] = "send_message" /\ pc[k] = "returned"
          /\ res[k].val = EmptyText
          /\ tr[k] # None /\ conn[tr[k]] = "closed"

\* Index of the first frame of q that ends the read loop, or 0.
FirstTerminal(q) ==
    LET I == {i \in 1..Len(q) : Terminal(q[i])} IN
    IF I = {} THEN 0 ELSE CHOOSE i \in I : \A j \in I : i <= j

\* C21: when Provider B's send_message, waiting in its read loop, is resumed
\* on unread frames (other event types, transcripts whose final flag is
\* false or missing, final transcripts), it returns exactly the text of the
\* first final transcript and leaves the frames behind it unread; with no
\* final transcript among them, on an open transport, it has read them all
\* and waits again, with no result.
C21_FirstFinalTranscriptIsResult ==
    [][\A k \in Ops :
          (provider = "ultravox" /\ kind[k] = "send_message"
              /\ pc[k] = "recv" /\ Resumed(k))
          => LET q == inbox[tr[k]]
                 i == FirstTerminal(q)
             IN  IF i > 0
                 THEN /\ pc'[k] = "returned"
                      /\ res'[k] = [st |-> "ret", val |-> q[i].text,
                                    exc |-> ""]
                      /\ inbox'[tr[k]] = Behind(q, i)
                      /\ wire' = wire
                 ELSE conn[tr[k]] = "open"
                      => /\ pc'[k] = "recv"
                         /\ res'[k] = res[k]
                         /\ inbox'[tr[k]] = <<>>]_vars

\* Provider B's send_message has returned the text of the final transcript
\* and left a transcript that is not final, which arrived behind it, unread.
C21_Witness ==
    /\ provider = "ultravox"
    /\ \E k \in Ops :
          /\ kind[k] = "send_message" /\ pc[k] = "returned"
          /\ res[k] = [st |-> "ret", val |-> k, exc |-> ""]
          /\ LastStarted(k)
          /\ inbox[tr[k]] # <<>>
          /\ Head(inbox[tr[k]]).t = "transcript"

\* C22: no Provider B send_message ends with an exception raised by
\* decoding a received frame: whatever frame does not parse as a JSON object
\* is skipped and the read loop goes on.
C22_UnparsableFrameNeverAborts ==
    provider = "ultravox" =>
        \A k \in Ops :
            kind[k] = "send_message"
            => res[k].exc \notin {"JSONDecodeError", "AttributeError(data.get)"}

\* C23: no Provider A update_session or send_message ends with the
\* exception json.loads raises on a frame that is not JSON: such a frame is
\* skipped.
C23_UndecodableFrameNeverFatal ==
    provider = "openai" =>
        \A k \in Ops :
            kind[k] \in {"update_session", "send_message"}
            => res[k].exc # "JSONDecodeError"

\* Positions of the frames sent on transport w.
SentOn(w) == {i \in 1..Len(wire) : wire[i].c = w}

\* C24: Provider B's connect() on a client whose self.ws is None issues its
\* call-creation request, once, and nothing else; it opens the stream only
\* when its own request has returned (connect() after disconnect() is
\* again such a call, and its transport is a new one); once the stream is
\* open (and still is) it stores the new transport, sends set_output_medium
\* on it and returns. On every transport the first frame sent is set_output_medium and
\* no other frame is one.
C24_ConnectFetchesThenOpens ==
    /\ [](provider = "ultravox" =>
             \A w \in Ops :
                 SentOn(w) # {}
                 => \E i \in SentOn(w) :
                       /\ wire[i].t = "set_output_medium" /\ wire[i].m = w
                       /\ \A j \in SentOn(w) \ {i} :
                             i < j /\ wire[j].t # "set_output_medium")
    /\ [][\A k \in Ops :
             (provider = "ultravox" /\ kind[k] = "connect")
             => /\ (pc[k] = "queued" /\ Resumed(k) /\ ws[TheClient] = None)
                   => pc'[k] = "fetch" /\ wire' = wire /\ conn' = conn
                /\ pc'[k] = "fetch" => pc[k] \in {"queued", "fetch"}
                /\ (pc'[k] = "connect" /\ pc[k] # "connect")
                   => pc[k] = "fetch" /\ io[k] = "ok"
                /\ (pc[k] = "connect" /\ Resumed(k) /\ io[k] = "ok"
                       /\ conn[k] = "open")
                   => /\ \A j \in Ops : j < k => ws[TheClient] # k
                      /\ ws'[TheClient] = k
                      /\ wire' = Append(wire, Frame(k, "set_output_medium",
                                                    k, TRUE))
                      /\ pc'[k] = "returned"]_vars

\* Provider B's client has connected, disconnected and connected again, and
\* a message frame has been sent on the second transport.
C24_Witness ==
    /\ provider = "ultravox"
    /\ \E j, d, k \in Ops :
          /\ j < d /\ d < k
          /\ kind[j] = "connect" /\ pc[j] = "returned" /\ SentOn(j) # {}
          /\ kind[d] = "disconnect" /\ pc[d] = "returned"
          /\ kind[k] = "connect" /\ pc[k] = "returned"
          /\ ws[TheClient] = k
          /\ \E i \in SentOn(k) : wire[i].t = "input_text_message"

\* The step is the background thread running a coroutine's handle.
LoopThreadStep ==
    /\ loop # "stopped"
    /\ ready # <<>>
    /\ Head(ready) # StopHandle
    /\ ready' = Tail(ready)

\* Program points at which a call awaits provider I/O it has started.
InProviderIO == {"fetch", "connect", "hs_recv", "recv", "close"}

\* C25: with callers on external threads, a step that writes self.client, a
\* client's self.ws or session_updated, sends a frame, or starts or resumes
\* a client operation is a step of the background thread; a step of a caller
\* thread (queueing the coroutine, asking the loop to stop, joining) changes
\* none of them.
C25_ClientStateOnLoopThreadOnly ==
    [][(\/ client' # client
        \/ ws' # ws
        \/ session_updated' # session_updated
        \/ Len(wire') # Len(wire)
        \/ \E k \in Calls :
              /\ pc'[k] # pc[k]
              /\ pc[k] \in InProviderIO \/ pc'[k] \in InProviderIO)
       => LoopThreadStep]_vars

\* A send_message call has returned the reply to its message and a stop()
\* call has returned, the client reference cleared, both from caller threads.
C25_Witness ==
    /\ client = None
    /\ wire # <<>>
    /\ \E j, k \in Calls :
          /\ kind[j] = "send" /\ pc[j] = "returned" /\ res[j].val = j
          /\ thread[j] = "caller"
          /\ kind[k] = "stop" /\ pc[k] = "returned"
          /\ thread[k] = "caller"

\* C26: the bridge's one thread and loop run from construction on (before
\* any call is made the loop is running and has nothing queued); the loop
\* leaves the running state only after a stop() call has asked it to, and
\* once stopping or stopped no operation starts it, or another one, again.
C26_OneLoopAliveUntilStop ==
    /\ []((\A k \in Calls : kind[k] = "none")
              => loop = "running" /\ ready = <<>>)
    /\ [](loop # "running"
              => \E k \in Calls :
                    kind[k] = "stop" /\ pc[k] \in {"join", "returned"})
    /\ [][loop' # loop
              => \/ loop = "running" /\ loop' = "stopping"
                 \/ loop = "stopping" /\ loop' = "stopped"]_vars

\* The loop served a send_message whose provider failed and one that got
\* its reply, and has stopped after stop() was called.
C26_Witness ==
    /\ loop = "stopped"
    /\ \E i, j, k \in Calls :
          /\ kind[i] = "send" /\ pc[i] = "raised"
          /\ kind[j] = "send" /\ pc[j] = "returned" /\ res[j].val = j
          /\ kind[k] = "stop" /\ pc[k] = "returned"

\* run_test_case has ended: it returned, or an exception left it.
Concluded == {"returned", "raised", "stop_raised", "UnboundLocalError"}

\* C27: the finally clause of run_test_case never raises itself, and when
\* run_test_case has ended, whether it returns the transcript or an
\* exception of one of its steps leaves it, stop() was called exactly once
\* and has returned.
C27_StopOnceOnEveryExit ==
    /\ driver \notin {"UnboundLocalError", "stop_raised"}
    /\ driver \in Concluded
          => /\ Cardinality(StopCalls) = 1
             /\ \A k \in StopCalls : pc[k] = "returned"

\* The bridge's client has issued a call-creation request (Provider B).
RequestIssued ==
    \E k \in Calls : cl[k] # None /\ (pc[k] = "fetch" \/ tr[k] # None)

\* C28: what the client the bridge constructed sends to the provider is the
\* bridge's configuration: the call-creation request of Provider B carries
\* the bridge's instructions as systemPrompt and its first_speaker as
\* firstSpeaker, the session.update of Provider A its instructions.
C28_ConfigReachesProvider ==
    /\ (provider = "ultravox" /\ RequestIssued)
          => CallPayload(NewClient(config))
                = [systemPrompt |-> config.instructions,
                   firstSpeaker |-> config.first_speaker]
    /\ (provider = "openai" /\ \E i \in 1..Len(wire) :
                                  wire[i].t = "session.update")
          => SessionPayload(NewClient(config))
                = [instructions |-> config.instructions]

\* C29: on a Provider A bridge no caller's coroutine goes on to the
\* client's send_message while the call that created the client is still in
\* _initialize (connecting, or waiting for session.updated), and every
\* conversation.item.create and response.create frame follows a
\* session.update frame on its transport.
C29_NoMessageBeforeHandshake ==
    provider = "openai" =>
        /\ \A k \in SendCalls : seen[k] # "pending"
        /\ \A i \in 1..Len(wire) :
              wire[i].t \in {"conversation.item.create", "response.create"}
              => \E h \in 1..(i - 1) :
                    wire[h].t = "session.update" /\ wire[h].c = wire[i].c

\* C30: no send_message call made after a stop() call returned is left with
\* its coroutine queued on the stopped loop, where nothing will ever run it
\* or unblock the caller.
C30_LateSendUnblocked ==
    \A k \in SendCalls : late[k] => ~(pc[k] = "queued" /\ loop = "stopped")

\* C31: once a stop() call has returned, no transport is open.
C31_NoTransportAfterStop ==
    StopReturned => \A w \in Calls : conn[w] # "open"

\* C32: when stop()'s _cleanup runs while a send_message waits in its read
\* loop on the client's open transport, it issues the close of that
\* transport at once and suspends on it, the exchange still pending; when
\* that call is resumed on a transport no longer open, with no terminal
\* frame unread, no failure of the provider or the network and one stop()
\* call, it returns the empty string; and by the time _cleanup has ended, no call is left in
\* its read loop on the transport _cleanup closed.
C32_StopAbandonsExchange ==
    /\ [][\A k \in SendCalls, j \in StopCalls :
             (pc[k] = "recv" /\ io[k] = "none"
                 /\ pc[j] = "queued" /\ Resumed(j)
                 /\ client # None /\ ws[client] = tr[k]
                 /\ conn[tr[k]] = "open")
             => /\ pc'[j] = "close" /\ tr'[j] = tr[k]
                /\ conn'[tr[k]] = "closed"
                /\ pc'[k] = "recv"]_vars
    /\ [][\A k \in SendCalls :
             (~fault /\ Cardinality(StopCalls) = 1
                 /\ pc[k] = "recv" /\ Resumed(k)
                 /\ conn[tr[k]] # "open"
                 /\ \A i \in 1..Len(inbox[tr[k]]) :
                       ~Terminal(inbox[tr[k]][i]))
             => /\ pc'[k] = "returned"
                /\ res'[k] = [st |-> "ret", val |-> EmptyText, exc |-> ""]]_vars
    /\ [](\A k \in SendCalls, j \in StopCalls :
             (~fault /\ tr[k] # None /\ tr[j] = tr[k]
                 /\ pc[j] \in {"cleaned", "join", "returned"})
             => pc[k] # "recv")

\* A send_message whose transport stop() closed, with no failure of the
\* provider or the network, has returned the empty string, and stop() has
\* returned.
C32_Witness ==
    /\ ~fault
    /\ \E k \in SendCalls, j \in StopCalls :
          /\ tr[k] # None /\ tr[j] = tr[k]
          /\ pc[j] = "returned"
          /\ pc[k] = "returned"
          /\ res[k] = [st |-> "ret", val |-> EmptyText, exc |-> ""]

\* No call has ended on a frame that is not a JSON object.
NoDecodeFailure ==
    \A k \in Ops :
        res[k].exc \notin {"JSONDecodeError", "AttributeError(data.get)"}

\* C33: every Provider A send_message that returns a response text returns
\* the one produced for its own request, also after an earlier exchange was
\* ended by an error frame and the provider emitted that exchange's
\* response.done afterwards (no frame having failed to decode).
C33_NoStaleResponse ==
    (provider = "openai" /\ NoDecodeFailure) =>
        \A k \in Ops :
            (kind[k] = "send_message" /\ pc[k] = "returned"
                /\ res[k].val \notin {EmptyText, ErrorText})
            => res[k].val = k

\* The number of turns _converse has started.
TurnsStarted == Len(conv.sent)

\* C34: _converse, for a turn budget T >= 1, runs at least one and at most T
\* turns; it calls the bridge's send_message exactly once per turn, with the
\* last transcript entry (the empty string on the first turn); each turn
\* appends two entries, the role-labelled response of the bridge and then the
\* testing-role message; and no turn follows the first one whose moderation
\* decision holds 'terminate'.
C34_ConverseTurns ==
    /\ TurnsStarted <= conv.turns
    /\ Cardinality(SendCalls) = TurnsStarted
    /\ driver \in {"finally_ok", "stop_ok", "returned"} =>
           /\ TurnsStarted >= 1
           /\ Len(conv.transcript) = 2 * TurnsStarted
    /\ driver = "converse" => Len(conv.transcript) = 2 * TurnsStarted
    /\ driver = "send_message" =>
           Len(conv.transcript) = 2 * TurnsStarted - 2
    /\ driver = "crew" => Len(conv.transcript) = 2 * TurnsStarted - 1
    /\ Len(conv.transcript) \in
           {2 * TurnsStarted - 2, 2 * TurnsStarted - 1, 2 * TurnsStarted}
    /\ \A i \in 1..TurnsStarted :
           /\ conv.sent[i] = IF i = 1 THEN Entry("", EmptyText)
                                      ELSE conv.transcript[2 * (i - 1)]
           /\ 2 * i - 1 <= Len(conv.transcript) =>
                  /\ kind[i] = "send" /\ pc[i] = "returned"
                  /\ conv.transcript[2 * i - 1] = Entry("tested", res[i].val)
           /\ 2 * i <= Len(conv.transcript) =>
                  conv.transcript[2 * i].role = "testing"
    /\ Len(conv.decisions) = Len(conv.transcript) \div 2
    /\ \A i \in 1..Len(conv.decisions) :
           conv.decisions[i] = "terminate" =>
               /\ i = Len(conv.decisions)
               /\ TurnsStarted = i
               /\ driver # "converse"

\* The budget is used up: as many turns as it allows, two entries each.
C34_Witness ==
    /\ driver = "returned"
    /\ conv.turns >= 2
    /\ TurnsStarted = conv.turns
    /\ Len(conv.transcript) = 2 * conv.turns

\* C35: in the queue-based bridge, when several threads call send_message
\* concurrently, the value a caller takes from response_queue is the
\* response produced for the message that caller put on message_queue.
C35_CallerGetsOwnResponse ==
    \A c \in Calls :
        qb.caller[c] = "returned" => qb.got[c].to = c

\* The messages the worker has taken from message_queue.
Taken ==
    {c \in Calls :
        /\ qb.caller[c] # "idle"
        /\ \A i \in 1..Len(qb.message_queue) : qb.message_queue[i] # c}

\* C36: in the queue-based bridge, stop() waits for an exchange in flight:
\* the worker finishes the exchange it is servicing and puts its response on
\* response_queue before it disconnects, and stop() returns only after the
\* worker has run disconnect and its thread has ended.
C36_StopWaitsForExchange ==
    /\ [][(qb.stop = "join" /\ qb.worker = "recv" /\ qb'.worker # "recv") =>
              /\ qb'.worker = "while"
              /\ qb.message \in qb'.answered
              /\ qb'.response_queue # <<>>]_vars
    /\ [](qb.worker \in {"disconnect", "terminated"} =>
              /\ qb.message = None
              /\ Taken \subseteq qb.answered)
    /\ []((qb.stop = "returned" /\ Taken # {}) =>
              /\ qb.worker = "terminated"
              /\ qb.ws = None
              /\ Taken \subseteq qb.answered)

\* The worker thread has ended, by itself after stop() or by an exception
\* of an exchange, and not by a failure of its start-up.
WorkerEndedAfterStartup ==
    \/ qb.worker = "terminated"
    \/ /\ qb.worker = "died"
       /\ qb.exc \in {"Exception(error frame)", "ConnectionClosed(send)"}

\* C37: in the queue-based bridge every send_message call returns in the
\* end, provided the provider ends every exchange with response.done, with
\* an error frame or by closing the transport.  Stated on finite runs: no
\* caller waits on an empty response_queue once the worker thread, the only
\* one that puts responses on it, has ended.
C37_NoCallerBlockedForever ==
    \A c \in Calls :
        ~ /\ qb.caller[c] = "get"
          /\ qb.response_queue = <<>>
          /\ WorkerEndedAfterStartup

\* C38: in the queue-based bridge the worker thread never reads
\* self.instructions or self.logger before the constructor has assigned
\* them: async_run builds its client from assigned fields in every
\* interleaving of the constructor and the started worker.
C38_WorkerReadsAssignedFields ==
    /\ qb.exc \notin {"AttributeError(instructions)", "AttributeError(logger)"}
    /\ qb.client # None =>
           qb.client = [instructions |-> GivenInstructions,
                        logger |-> GivenLogger]

====
